---- MODULE Spec2Model ----
(***************************************************************************)
(* DeckMind: the session/process lifecycle as the front end drives it.     *)
(*                                                                         *)
(* Strings are modelled as sequences of atoms: one atom per shell word     *)
(* (a flag, a value, a path) and one atom SP per blank.  The regular       *)
(* expressions of buildClaudeCommand act on these sequences the way they   *)
(* act on the characters of the words.                                     *)
(***************************************************************************)
EXTENDS Naturals, Integers, Sequences, FiniteSets, TLC

(***************************************************************************)
(* Bounds of the model.                                                    *)
(***************************************************************************)
MaxFlagsLen == 6
MaxSessions == 2
MaxEvents == 2
MaxTasks == 1
MaxRelaunches == 1
MaxWrites == 3
MaxChunk == 4
MaxSetups == 3
MaxControls == 2
MaxTriggers == 2
MaxRecentDirs == 2
MaxRemapFocus == 3

(***************************************************************************)
(* Atoms of command strings.                                               *)
(***************************************************************************)
SP == " "
WORKTREE == "--worktree"
BYPASS == "--dangerously-skip-permissions"
RESUME == "--resume"
CONTINUE == "--continue"
MARKER == "; printf '\\033]666;\\007'"
CR == "\\r"
NoId == "undefined"

AgentPaths == {"claude", "/opt/bin/claude"}
ResumeIds == {"abc-123"}
FlagTokens == {WORKTREE, "--model", "sonnet", CONTINUE}

\* An atom whose first character is a word character ([A-Za-z0-9_]): the
\* regular expression's \b holds between "--worktree" and what follows it
\* unless what follows starts with a word character.
WordInitial(a) == a \in {"sonnet", "claude", "abc-123", "def-456", "0a1-789", "9f8-012"}

Range(s) == {s[i] : i \in 1..Len(s)}

\* The elements of s at the indices in keep, in order.
RECURSIVE Pick(_, _, _)
Pick(s, keep, i) ==
  IF i > Len(s) THEN <<>>
  ELSE (IF i \in keep THEN <<s[i]>> ELSE <<>>) \o Pick(s, keep, i + 1)

\* String.prototype.trim
Trim(s) ==
  LET idx == {i \in 1..Len(s) : s[i] # SP}
  IN  IF idx = {} THEN <<>>
      ELSE LET lo == CHOOSE i \in idx : \A j \in idx : i <= j
               hi == CHOOSE i \in idx : \A j \in idx : j <= i
           IN  SubSeq(s, lo, hi)

\* .replace(/--worktree\b/g, '')
RemoveWorktree_Keep(s) == s
RemoveWorktree(s) ==
  Pick(s, {i \in 1..Len(s) :
             ~(s[i] = WORKTREE /\ (i = Len(s) \/ ~WordInitial(s[i + 1])))}, 1)

\* .replace(/\s{2,}/g, ' ')
CollapseSpaces_Keep(s) == s
CollapseSpaces(s) ==
  Pick(s, {i \in 1..Len(s) : ~(s[i] = SP /\ i > 1 /\ s[i - 1] = SP)}, 1)

\* opts?.resumeId || opts?.continue
IsRelaunch_Always(resumeId, cont) == TRUE
IsRelaunch(resumeId, cont) == resumeId # NoId \/ cont

buildClaudeCommand(claudePath, storedFlags, resumeId, cont) ==
  LET cmd0 == <<claudePath, SP, BYPASS>>
      cmd1 == IF resumeId # NoId THEN cmd0 \o <<SP, RESUME, SP, resumeId>> ELSE cmd0
      cmd2 == IF cont THEN cmd1 \o <<SP, CONTINUE>> ELSE cmd1
      trimmed == Trim(storedFlags)
      safeFlags == IF trimmed # <<>> /\ IsRelaunch(resumeId, cont)
                   THEN Trim(CollapseSpaces(RemoveWorktree(trimmed)))
                   ELSE trimmed
      cmd3 == IF safeFlags # <<>> THEN cmd2 \o <<SP>> \o safeFlags ELSE cmd2
  IN  cmd3 \o <<MARKER>>

(***************************************************************************)
(* Stored flag strings: words separated by one or more blanks, with or     *)
(* without blanks at either end.                                           *)
(***************************************************************************)
RECURSIVE FlagStringsOfLen(_)
FlagStringsOfLen(n) ==
  IF n = 0 THEN {<<>>}
  ELSE LET P == FlagStringsOfLen(n - 1)
       IN  {Append(s, SP) : s \in P}
           \cup {Append(s, t) : s \in {p \in P : p = <<>> \/ p[Len(p)] = SP},
                                t \in FlagTokens}

FlagStrings == UNION {FlagStringsOfLen(n) : n \in 0..MaxFlagsLen}

NoCall == [out |-> <<>>]

(***************************************************************************)
(* State.                                                                  *)
(*   composed          the last call of buildClaudeCommand and its result  *)
(*   registry          back end: the live shells, each with its agent path *)
(*                     and launch flags                                    *)
(*   spawned           back end: how many sessions were ever created       *)
(*   agentUp           back end: the agent runs inside the session's shell *)
(*   ptyLog            back end: the writes that reached each PTY          *)
(*   events            back end -> webview: events not yet handled         *)
(*   sessions, activeSessionId, sessionStates, uiMode, draftText, isBusy,  *)
(*   terminalInstance  the zustand store                                   *)
(*   paneListening     TerminalPane: its session-output listener is on     *)
(*   termResume        the resume id of the last "claude --resume <id>"    *)
(*                     line in the last 30 lines of the terminal buffer    *)
(*   tasks             the async handlers in flight, one per slot          *)
(*   tail, lastScan    Sentinel Scanner of one session: the bytes it keeps *)
(*                     between reads and the outcome of its last call      *)
(*   matched, pure, everDetected, everCompleted                            *)
(*                     what the stream fed so far holds: the marker prefix *)
(*                     it ends in, the marker bytes fed as a clean split,  *)
(*                     whether detection was ever signalled, whether a     *)
(*                     marker was ever complete                            *)
(*   listenerSetup     useSession: the module's "listeners are set up" flag *)
(*   listeners         how many listeners useSession has subscribed to     *)
(*                     each event                                          *)
(*   setups            the calls of setupListeners: where each one stands  *)
(*   handled           how many useSession listeners ran for the event     *)
(*                     dispatched last                                     *)
(*   dialog            the store's fields of the New Session dialog        *)
(*   keyboardActive    the store's flag of the on-screen keyboard          *)
(***************************************************************************)
VARIABLES composed, registry, spawned, agentUp, ptyLog, events,
          sessions, activeSessionId, sessionStates, uiMode, draftText, isBusy,
          terminalInstance, paneListening, termResume, tasks,
          tail, lastScan, matched, pure, everDetected, everCompleted,
          listenerSetup, listeners, setups, handled,
          button_mappings, remapperCaptureState,
          dialog, keyboardActive

backendVars == <<registry, spawned, agentUp, ptyLog, events>>
storeVars == <<sessions, activeSessionId, sessionStates, uiMode, draftText, isBusy>>
paneVars == <<terminalInstance, paneListening, termResume>>
scanVars == <<tail, lastScan, matched, pure, everDetected, everCompleted>>
listenVars == <<listenerSetup, listeners, setups, handled>>
dialogVars == <<dialog, keyboardActive>>
remapVars == <<button_mappings, remapperCaptureState>>
vars == <<composed, backendVars, storeVars, paneVars, tasks, scanVars, listenVars, dialogVars,
          remapVars>>

NULL == "null"
NoScan == [detected |-> FALSE, completed |-> 0, len |-> 0]
NoSession == 0
ListenedEvents == {"claude-exited", "session-done", "session-message-sent"}
SetupCalls == 1..MaxSetups
SessionIds == 1..MaxSessions
\* The handlers that can be in flight at once.
Slots == DOMAIN tasks
shells == DOMAIN registry

\* The resume id the agent of session s prints when it exits.
ResumeIdSeq == <<"abc-123", "def-456", "0a1-789", "9f8-012">>
ResumeIdOf(s) == ResumeIdSeq[s]
AllResumeIds == Range(ResumeIdSeq)
PlainText == "text"

Idle == [op |-> "idle", via |-> "-", pc |-> "-", sid |-> NoSession, rid |-> NULL,
         cont |-> FALSE, arg |-> <<>>, list |-> <<>>,
         act |-> NoSession, seen |-> <<>>, found |-> FALSE]

\* appStore.ts: the per-session snapshot and its updates.
FreshDialog ==
  [newSessionFieldIndex |-> 0, newSessionDirIndex |-> -1, newSessionName |-> "",
   newSessionCreateTrigger |-> 0, newSessionWorktree |-> FALSE,
   newSessionContinue |-> FALSE]
DefaultState == [ended |-> FALSE, resumeId |-> NULL]
getSessionState(st, s) == IF s \in DOMAIN st THEN st[s] ELSE DefaultState
setSessionEnded_Reset(st, s, e) ==
  [x \in DOMAIN st \cup {s} |->
     IF x = s THEN [DefaultState EXCEPT !.ended = e] ELSE st[x]]
setSessionEnded(st, s, e) ==
  [x \in DOMAIN st \cup {s} |->
     IF x = s THEN [getSessionState(st, s) EXCEPT !.ended = e] ELSE st[x]]
setClaudeResumeId(st, s, r) ==
  [x \in DOMAIN st \cup {s} |->
     IF x = s THEN [getSessionState(st, s) EXCEPT !.resumeId = r] ELSE st[x]]
clearSessionState(st, s) == [x \in DOMAIN st \ {s} |-> st[x]]

\* buttonMappings.ts: the default mappings, one per action of the ACTIONS list. A
\* key binding is a key and its modifiers; NoKey is the null key binding and
\* NULL the null gamepad button.
KeyBinding(key, modifiers) == [key |-> key, modifiers |-> modifiers]
NoKey == KeyBinding(NULL, <<>>)
ButtonMapping(action, keyboard, gamepad) ==
  [action |-> action, keyboard |-> keyboard, gamepad |-> gamepad]

getDefaultMappings ==
  << ButtonMapping("context", KeyBinding("1", <<"Ctrl">>), NULL),
     ButtonMapping("explain", KeyBinding("2", <<"Ctrl">>), NULL),
     ButtonMapping("fix", KeyBinding("3", <<"Ctrl">>), NULL),
     ButtonMapping("continue", KeyBinding("4", <<"Ctrl">>), NULL),
     ButtonMapping("plan", KeyBinding("5", <<"Ctrl">>), NULL),
     ButtonMapping("summarize", KeyBinding("6", <<"Ctrl">>), NULL),
     ButtonMapping("interrupt", KeyBinding("Escape", <<>>), NULL),
     ButtonMapping("voice", KeyBinding("Space", <<"Ctrl">>), "R2") >>

NoCapture == [actionIndex |-> 0, bindingType |-> NULL]

\* The stores and the back end when the app has loaded: no session,
\* terminal mode.
LoadedWith(slots) ==
  /\ composed = NoCall
  /\ registry = <<>>
  /\ spawned = 0
  /\ agentUp = [s \in SessionIds |-> FALSE]
  /\ ptyLog = [s \in SessionIds |-> <<>>]
  /\ events = <<>>
  /\ sessions = <<>>
  /\ activeSessionId = NoSession
  /\ sessionStates = <<>>
  /\ uiMode = "terminal"
  /\ draftText = <<>>
  /\ isBusy = FALSE
  /\ terminalInstance = NoSession
  /\ paneListening = FALSE
  /\ termResume = NULL
  /\ tasks = [k \in 1..slots |-> Idle]
  /\ tail = <<>>
  /\ lastScan = NoScan
  /\ matched = 0
  /\ pure = 0
  /\ everDetected = FALSE
  /\ everCompleted = FALSE
  /\ handled = 0
  /\ dialog = FreshDialog
  /\ keyboardActive = FALSE
  /\ button_mappings = getDefaultMappings
  /\ remapperCaptureState = NoCapture

Loaded == LoadedWith(MaxTasks)

\* The app once App has mounted and its call of setupListeners has
\* subscribed the listeners of useSession.
Init ==
  /\ Loaded
  /\ listenerSetup = TRUE
  /\ listeners = [e \in ListenedEvents |-> 1]
  /\ setups = [c \in SetupCalls |-> "done"]

\* The app before App has mounted: no call of setupListeners yet.
InitListen ==
  /\ Loaded
  /\ listenerSetup = FALSE
  /\ listeners = [e \in ListenedEvents |-> 0]
  /\ setups = [c \in SetupCalls |-> "idle"]

(***************************************************************************)
(* Command Composer as a specification of its own.                         *)
(***************************************************************************)
\* A caller composes a command.
Compose ==
  /\ composed = NoCall
  /\ \E p \in AgentPaths, f \in FlagStrings, r \in ResumeIds \cup {NoId}, c \in BOOLEAN :
       composed' = [path |-> p, flags |-> f, resumeId |-> r, cont |-> c,
                    out |-> buildClaudeCommand(p, f, r, c)]
  /\ UNCHANGED <<backendVars, storeVars, paneVars, tasks, scanVars, listenVars, remapVars, dialogVars>>

\* The caller has used the command.
ComposeDone ==
  /\ composed # NoCall
  /\ composed' = NoCall
  /\ UNCHANGED <<backendVars, storeVars, paneVars, tasks, scanVars, listenVars, remapVars, dialogVars>>

NextCmd == Compose \/ ComposeDone

SpecCmd == Init /\ [][NextCmd]_vars

(***************************************************************************)
(* Session lifecycle: the back end (PTY manager, registry, events), the    *)
(* store, the event listeners of useSession, the relaunch handlers and the *)
(* TerminalPane of the active session.                                     *)
(***************************************************************************)
HasFree == \E k \in Slots : tasks[k] = Idle
FreeSlot == CHOOSE k \in Slots : tasks[k] = Idle /\ \A j \in 1..(k - 1) : tasks[j] # Idle
Start(t) == tasks' = [tasks EXCEPT ![FreeSlot] = t]
Finish(k) == tasks' = [tasks EXCEPT ![k] = Idle]
Goto(k, pc) == tasks' = [tasks EXCEPT ![k].pc = pc]

RECURSIVE SortedSeq(_)
SortedSeq(S) ==
  IF S = {} THEN <<>>
  ELSE LET m == CHOOSE x \in S : \A y \in S : x <= y IN <<m>> \o SortedSeq(S \ {m})

Event(type, s, data) == [type |-> type, session_id |-> s, data |-> data]

\* SessionView keys the TerminalPane on the active session: a change of the
\* active session unmounts the pane (terminal disposed, listener removed)
\* and mounts a fresh one, whose listener is not subscribed yet.
setActiveSession(a) ==
  /\ activeSessionId' = a
  /\ IF a = activeSessionId
       THEN UNCHANGED paneVars
       ELSE terminalInstance' = a /\ paneListening' = FALSE /\ termResume' = NULL

\* The launch flags NewSessionDialog joins from its toggles.
LaunchFlags(cont, worktree) ==
  (IF cont THEN <<CONTINUE>> ELSE <<>>)
    \o (IF cont /\ worktree THEN <<SP>> ELSE <<>>)
    \o (IF worktree THEN <<WORKTREE>> ELSE <<>>)

\* setUIMode of the store: entering the New Session dialog resets its
\* fields unless the directory browser is left; every change of mode
\* dismisses the on-screen keyboard.
PreservesDialog_Always(current) == TRUE
PreservesDialog(current) == current = "dirBrowser"

DialogAfter(mode, current, d) ==
  IF mode = "newSession" /\ ~PreservesDialog(current) THEN FreshDialog ELSE d

setUIMode(mode) ==
  /\ uiMode' = mode
  /\ keyboardActive' = FALSE
  /\ dialog' = DialogAfter(mode, uiMode, dialog)

\* Start menu and New Session dialog navigation.
NavTargets(m) ==
  CASE m = "terminal" -> {"startMenu"}
    [] m = "startMenu" -> {"terminal", "newSession"}
    [] m = "newSession" -> {"startMenu", "terminal"}
    [] OTHER -> {}

Navigate ==
  /\ \E m \in NavTargets(uiMode) : setUIMode(m)
  /\ UNCHANGED <<composed, scanVars, listenVars, remapVars, backendVars, sessions, activeSessionId, sessionStates,
                 draftText, isBusy, paneVars, tasks>>

\* NewSessionDialog.handleCreate up to its await of createSession, which
\* has invoked create_session.
HandleCreate ==
  /\ uiMode = "newSession"
  /\ HasFree
  /\ \E wt \in BOOLEAN :
       Start([Idle EXCEPT !.op = "create", !.via = "dialog", !.pc = "create_session",
                          !.arg = LaunchFlags(FALSE, wt)])
  /\ UNCHANGED <<composed, scanVars, listenVars, remapVars, backendVars, storeVars, paneVars, dialogVars>>

\* Back end: create_session spawns the shell and launches the agent in it.
BackendCreateOk(k) ==
  /\ tasks[k].pc = "create_session"
  /\ spawned < MaxSessions
  /\ LET id == spawned + 1 IN
       /\ spawned' = id
       /\ registry' = [x \in shells \cup {id} |->
                         IF x = id THEN [claude_path |-> "claude", launch_flags |-> tasks[k].arg]
                         ELSE registry[x]]
       /\ agentUp' = [agentUp EXCEPT ![id] = TRUE]
       /\ tasks' = [tasks EXCEPT ![k].pc = "list_sessions", ![k].sid = id]
  /\ UNCHANGED <<composed, scanVars, listenVars, remapVars, ptyLog, events, storeVars, paneVars, dialogVars>>

\* Back end: create_session fails (bad directory, spawn error).
BackendCreateFail(k) ==
  /\ tasks[k].pc = "create_session"
  /\ Goto(k, "rejected")
  /\ UNCHANGED <<composed, scanVars, listenVars, remapVars, backendVars, storeVars, paneVars, dialogVars>>

\* Back end: list_sessions answers with the registry.
BackendList(k) ==
  /\ tasks[k].pc = "list_sessions"
  /\ tasks' = [tasks EXCEPT ![k].pc = "listed", ![k].list = SortedSeq(shells)]
  /\ UNCHANGED <<composed, scanVars, listenVars, remapVars, backendVars, storeVars, paneVars, dialogVars>>

\* createSession rethrows what create_session rejected with.
createSessionThrows_Swallow(t) == FALSE
createSessionThrows(t) == t.pc = "rejected"

\* createSession after refreshSessions, then handleCreate after createSession.
CreateFinish(k) ==
  /\ tasks[k].op = "create" /\ tasks[k].pc = "listed"
  /\ sessions' = tasks[k].list
  /\ setActiveSession(tasks[k].sid)
  /\ setUIMode("terminal")
  /\ Finish(k)
  /\ UNCHANGED <<composed, scanVars, listenVars, remapVars, backendVars, sessionStates, draftText, isBusy>>

\* The catch of createSession, then handleCreate: its catch when
\* createSession threw, its success path otherwise.
CreateRejected(k) ==
  /\ tasks[k].op = "create" /\ tasks[k].pc = "rejected"
  /\ IF createSessionThrows(tasks[k])
       THEN UNCHANGED <<uiMode, dialogVars>>
       ELSE setUIMode("terminal")
  /\ Finish(k)
  /\ UNCHANGED <<composed, scanVars, listenVars, remapVars, backendVars, sessions, activeSessionId, sessionStates,
                 draftText, isBusy, paneVars>>

\* Select button / cycle control.
CycleSession ==
  /\ Len(sessions) > 1
  /\ LET idx == IF \E i \in 1..Len(sessions) : sessions[i] = activeSessionId
                  THEN CHOOSE i \in 1..Len(sessions) : sessions[i] = activeSessionId
                  ELSE 0
     IN setActiveSession(sessions[(idx % Len(sessions)) + 1])
  /\ UNCHANGED <<composed, scanVars, listenVars, remapVars, backendVars, sessions, sessionStates, uiMode, draftText,
                 isBusy, tasks, dialogVars>>

\* TerminalPane: listen('session-output') has resolved.
PaneListen ==
  /\ terminalInstance # NoSession
  /\ ~paneListening
  /\ paneListening' = TRUE
  /\ UNCHANGED <<composed, scanVars, listenVars, remapVars, backendVars, storeVars, terminalInstance, termResume, tasks, dialogVars>>

\* Back end: the agent of session s exits to the shell; it may print the
\* "claude --resume <id>" hint first, and the sentinel that follows makes
\* the reader emit claude-exited.
AgentExit(s) ==
  /\ s \in shells /\ agentUp[s]
  /\ \E hint \in BOOLEAN :
       LET out == IF hint THEN <<Event("session-output", s, ResumeIdOf(s))>> ELSE <<>> IN
         /\ Len(events) + Len(out) < MaxEvents
         /\ events' = events \o out \o <<Event("claude-exited", s, "")>>
  /\ agentUp' = [agentUp EXCEPT ![s] = FALSE]
  /\ UNCHANGED <<composed, scanVars, listenVars, remapVars, registry, spawned, ptyLog, storeVars, paneVars, tasks, dialogVars>>

\* Back end: the shell of session s exits; the registry drops the session
\* and the reader emits session-done.
ShellExit_Keep(s) ==
  /\ s \in shells
  /\ Len(events) < MaxEvents
  /\ events' = Append(events, Event("session-done", s, ""))
  /\ UNCHANGED <<composed, scanVars, listenVars, remapVars, registry, agentUp, spawned, ptyLog, storeVars, paneVars, tasks, dialogVars>>

ShellExit(s) ==
  /\ s \in shells
  /\ Len(events) < MaxEvents
  /\ registry' = [x \in shells \ {s} |-> registry[x]]
  /\ agentUp' = [agentUp EXCEPT ![s] = FALSE]
  /\ events' = Append(events, Event("session-done", s, ""))
  /\ UNCHANGED <<composed, scanVars, listenVars, remapVars, spawned, ptyLog, storeVars, paneVars, tasks, dialogVars>>

\* Back end: the PTY of session s produces a chunk of plain output.
Output(s) ==
  /\ s \in shells
  /\ Len(events) < MaxEvents
  /\ events' = Append(events, Event("session-output", s, PlainText))
  /\ UNCHANGED <<composed, scanVars, listenVars, remapVars, registry, spawned, agentUp, ptyLog, storeVars, paneVars, tasks, dialogVars>>

\* TerminalPane's session-output listener: it exists once listen() has
\* resolved and writes only the chunks of the pane's own session.  A hint
\* line becomes the last resume line of the buffer; a plain chunk may
\* scroll that line out of the scanned window.
PaneWrites(e) == paneListening /\ terminalInstance = e.session_id

DeliverOutput ==
  /\ events # <<>> /\ Head(events).type = "session-output"
  /\ events' = Tail(events)
  /\ LET e == Head(events) IN
       IF PaneWrites(e)
         THEN IF e.data \in AllResumeIds
                THEN termResume' = e.data
                ELSE termResume' \in {termResume, NULL}
         ELSE termResume' = termResume
  /\ UNCHANGED <<composed, scanVars, listenVars, remapVars, registry, spawned, agentUp, ptyLog, storeVars,
                 terminalInstance, paneListening, tasks, dialogVars>>

\* useSession: the claude-exited listener.
DeliverClaudeExited ==
  /\ events # <<>> /\ Head(events).type = "claude-exited"
  /\ events' = Tail(events)
  /\ isBusy' = FALSE
  /\ LET id == Head(events).session_id
         ended == setSessionEnded(sessionStates, id, TRUE)
     IN sessionStates' = IF terminalInstance # NoSession /\ termResume # NULL
                           THEN setClaudeResumeId(ended, id, termResume)
                           ELSE ended
  /\ UNCHANGED <<composed, scanVars, listenVars, remapVars, registry, spawned, agentUp, ptyLog, sessions,
                 activeSessionId, uiMode, draftText, paneVars, tasks, dialogVars>>

\* useSession: the session-done listener.
DeliverSessionDone ==
  /\ events # <<>> /\ Head(events).type = "session-done"
  /\ events' = Tail(events)
  /\ isBusy' = FALSE
  /\ sessionStates' = setSessionEnded(sessionStates, Head(events).session_id, TRUE)
  /\ UNCHANGED <<composed, scanVars, listenVars, remapVars, registry, spawned, agentUp, ptyLog, sessions,
                 activeSessionId, uiMode, draftText, paneVars, tasks, dialogVars>>

\* The four relaunch handlers up to their first await: the restart button
\* of the controller bar, gamepad B and Y in terminal mode, the resume item
\* of the Start menu.  Each captures the active session and its snapshot.
RelaunchEnabled_Running(via) ==
  /\ activeSessionId # NoSession
  /\ via \in {"padB", "padY"} => uiMode = "terminal"
  /\ via = "menu" => uiMode = "startMenu"

RelaunchEnabled(via) ==
  LET ss == getSessionState(sessionStates, activeSessionId) IN
    /\ activeSessionId # NoSession
    /\ ss.ended
    /\ via \in {"padB", "padY"} => uiMode = "terminal"
    /\ via = "menu" => uiMode = "startMenu" /\ ss.resumeId # NULL

RelaunchStart(via) ==
  /\ RelaunchEnabled(via)
  /\ HasFree
  /\ Len(ptyLog[activeSessionId]) < MaxRelaunches
  /\ Start([Idle EXCEPT !.op = "relaunch", !.via = via, !.pc = "get_claude_path",
                        !.sid = activeSessionId,
                        !.rid = getSessionState(sessionStates, activeSessionId).resumeId,
                        !.cont = (via = "padY")])
  /\ UNCHANGED <<composed, scanVars, listenVars, remapVars, backendVars, storeVars, paneVars, dialogVars>>

\* Back end: get_claude_path, then get_session_flags; each rejects for a
\* session the registry no longer holds.
BackendLookup(k) ==
  /\ tasks[k].pc \in {"get_claude_path", "get_session_flags"}
  /\ IF tasks[k].sid \in shells
       THEN IF tasks[k].pc = "get_claude_path"
              THEN Goto(k, "get_session_flags")
              ELSE tasks' = [tasks EXCEPT ![k].pc = "compose",
                                          ![k].arg = registry[tasks[k].sid].launch_flags]
       ELSE Goto(k, "rejected")
  /\ UNCHANGED <<composed, scanVars, listenVars, remapVars, backendVars, storeVars, paneVars, dialogVars>>

\* The command a relaunch handler composes: gamepad Y asks for --continue,
\* the others pass the captured resume id.
RelaunchCommand_Fresh(t) ==
  buildClaudeCommand("claude", t.arg, NoId, t.cont) \o <<CR>>

RelaunchCommand(t) ==
  buildClaudeCommand("claude", t.arg,
                     IF t.cont \/ t.rid = NULL THEN NoId ELSE t.rid, t.cont) \o <<CR>>

\* The relaunch handlers forget the resume id they have just used.
clearResumeId_Skip(st, s) == st
clearResumeId(st, s) == setClaudeResumeId(st, s, NULL)

\* The handler after both lookups: mark the session running, clear the
\* resume id, (Start menu) return to the terminal, invoke pty_write.
RelaunchCommit(k) ==
  /\ tasks[k].op = "relaunch" /\ tasks[k].pc = "compose"
  /\ sessionStates' = clearResumeId(setSessionEnded(sessionStates, tasks[k].sid, FALSE),
                                     tasks[k].sid)
  /\ IF tasks[k].via = "menu"
       THEN setUIMode("terminal")
       ELSE UNCHANGED <<uiMode, dialogVars>>
  /\ Goto(k, "pty_write")
  /\ UNCHANGED <<composed, scanVars, listenVars, remapVars, backendVars, sessions, activeSessionId, draftText, isBusy, paneVars>>

\* Back end: pty_write of the relaunch command; the shell starts the agent.
\* For a session that is gone the call rejects and the handler logs.
RelaunchWrite(k) ==
  /\ tasks[k].op = "relaunch" /\ tasks[k].pc = "pty_write"
  /\ IF tasks[k].sid \in shells
       THEN /\ ptyLog' = [ptyLog EXCEPT ![tasks[k].sid] = Append(@, RelaunchCommand(tasks[k]))]
            /\ agentUp' = [agentUp EXCEPT ![tasks[k].sid] = TRUE]
       ELSE UNCHANGED <<ptyLog, agentUp>>
  /\ Finish(k)
  /\ UNCHANGED <<composed, scanVars, listenVars, remapVars, registry, spawned, events, storeVars, paneVars, dialogVars>>

\* The catch of a relaunch handler whose lookup rejected.
RelaunchRejected(k) ==
  /\ tasks[k].op = "relaunch" /\ tasks[k].pc = "rejected"
  /\ Finish(k)
  /\ UNCHANGED <<composed, scanVars, listenVars, remapVars, backendVars, storeVars, paneVars, dialogVars>>

Next ==
  \/ Navigate
  \/ HandleCreate
  \/ \E k \in Slots : BackendCreateOk(k)
  \/ \E k \in Slots : BackendCreateFail(k)
  \/ \E k \in Slots : BackendList(k)
  \/ \E k \in Slots : CreateFinish(k)
  \/ \E k \in Slots : CreateRejected(k)
  \/ CycleSession
  \/ PaneListen
  \/ \E s \in SessionIds : AgentExit(s)
  \/ \E s \in SessionIds : ShellExit(s)
  \/ DeliverOutput
  \/ DeliverClaudeExited
  \/ DeliverSessionDone
  \/ \E via \in {"bar", "padB", "padY", "menu"} : RelaunchStart(via)
  \/ \E k \in Slots : BackendLookup(k)
  \/ \E k \in Slots : RelaunchCommit(k)
  \/ \E k \in Slots : RelaunchWrite(k)
  \/ \E k \in Slots : RelaunchRejected(k)

Spec == Init /\ [][Next]_vars

(***************************************************************************)
(* Session creation as a specification of its own: the New Session dialog, *)
(* create_session succeeding or failing, the refresh that follows, and the *)
(* shells that exit meanwhile.                                             *)
(***************************************************************************)
NextCreate ==
  \/ Navigate
  \/ HandleCreate
  \/ \E k \in Slots : BackendCreateOk(k)
  \/ \E k \in Slots : BackendCreateFail(k)
  \/ \E k \in Slots : BackendList(k)
  \/ \E k \in Slots : CreateFinish(k)
  \/ \E k \in Slots : CreateRejected(k)
  \/ CycleSession
  \/ PaneListen
  \/ \E s \in SessionIds : ShellExit(s)
  \/ DeliverSessionDone

SpecCreate == Init /\ [][NextCreate]_vars

(***************************************************************************)
(* Closing sessions as a specification of its own: closeSession of the     *)
(* useSession hook and X on a session item of the Start menu.              *)
(***************************************************************************)
\* The handler up to its await of close_session.  It keeps the active
\* session it saw; closeSession also keeps the sessions list of its closure.
\* The hook takes any id its caller holds, the menu the id of a listed item.
CloseStart(via, s) ==
  /\ via = "menuX" => uiMode = "startMenu" /\ s \in Range(sessions)
  /\ via = "hook" => s \in 1..spawned
  /\ HasFree
  /\ Start([Idle EXCEPT !.op = "close", !.via = via, !.pc = "close_session", !.sid = s,
                        !.act = activeSessionId, !.seen = sessions])
  /\ UNCHANGED <<composed, scanVars, listenVars, remapVars, backendVars, storeVars, paneVars, dialogVars>>

\* Back end: close_session.  A known id leaves the registry, its shell is
\* killed and the reader emits session-done; an unknown id is NotFound, or
\* a no-op that succeeds.
BackendClose(k) ==
  /\ tasks[k].pc = "close_session"
  /\ IF tasks[k].sid \in shells
       THEN /\ Len(events) < MaxEvents
            /\ registry' = [x \in shells \ {tasks[k].sid} |-> registry[x]]
            /\ agentUp' = [agentUp EXCEPT ![tasks[k].sid] = FALSE]
            /\ events' = Append(events, Event("session-done", tasks[k].sid, ""))
            /\ tasks' = [tasks EXCEPT ![k].pc = "closed", ![k].found = TRUE]
       ELSE /\ UNCHANGED <<registry, agentUp, events>>
            /\ \E pc \in {"rejected", "closed"} : Goto(k, pc)
  /\ UNCHANGED <<composed, scanVars, listenVars, remapVars, spawned, ptyLog, storeVars, paneVars, dialogVars>>

\* After close_session resolved: the per-session state is dropped and
\* list_sessions is invoked.
CloseCommit(k) ==
  /\ tasks[k].op = "close" /\ tasks[k].pc = "closed"
  /\ sessionStates' = clearSessionState(sessionStates, tasks[k].sid)
  /\ Goto(k, "list_sessions")
  /\ UNCHANGED <<composed, scanVars, listenVars, remapVars, backendVars, sessions, activeSessionId, uiMode, draftText,
                 isBusy, paneVars, dialogVars>>

\* The session that becomes active when the closed one was: closeSession
\* takes the first other session of the list in its closure, the menu the
\* first session of the fresh list.
NextActive(t) ==
  LET rest == IF t.via = "hook"
                THEN SelectSeq(t.seen, LAMBDA x : x # t.sid)
                ELSE t.list
  IN IF rest = <<>> THEN NoSession ELSE rest[1]

\* After list_sessions resolved: the list is stored and, when the closed
\* session was the active one, another becomes active.
CloseFinish(k) ==
  /\ tasks[k].op = "close" /\ tasks[k].pc = "listed"
  /\ sessions' = tasks[k].list
  /\ IF tasks[k].act = tasks[k].sid
       THEN setActiveSession(NextActive(tasks[k]))
       ELSE UNCHANGED <<activeSessionId, paneVars>>
  /\ Finish(k)
  /\ UNCHANGED <<composed, scanVars, listenVars, remapVars, backendVars, sessionStates, uiMode, draftText, isBusy, dialogVars>>

\* Both close handlers catch what close_session rejected with.
closeCatches_Rethrow(t) == FALSE
closeCatches(t) == TRUE

\* The catch of a close handler: the failure is logged.  An exception no
\* handler catches leaves the call broken.
CloseRejected(k) ==
  /\ tasks[k].op = "close" /\ tasks[k].pc = "rejected"
  /\ IF closeCatches(tasks[k]) THEN Finish(k) ELSE Goto(k, "escaped")
  /\ UNCHANGED <<composed, scanVars, listenVars, remapVars, backendVars, storeVars, paneVars, dialogVars>>

NextClose ==
  \/ Navigate
  \/ HandleCreate
  \/ \E k \in Slots : BackendCreateOk(k)
  \/ \E k \in Slots : BackendList(k)
  \/ \E k \in Slots : CreateFinish(k)
  \/ CycleSession
  \/ \E s \in SessionIds : ShellExit(s)
  \/ DeliverSessionDone
  \/ \E via \in {"hook", "menuX"}, s \in SessionIds : CloseStart(via, s)
  \/ \E k \in Slots : BackendClose(k)
  \/ \E k \in Slots : CloseCommit(k)
  \/ \E k \in Slots : CloseFinish(k)
  \/ \E k \in Slots : CloseRejected(k)

SpecClose == Init /\ [][NextClose]_vars

(***************************************************************************)
(* The events of the back end as a specification of its own: sessions are  *)
(* created and closed, agents and shells exit, PTYs produce output, and    *)
(* the webview handles the events in the order of their emission.          *)
(***************************************************************************)
NextEvents ==
  \/ Navigate
  \/ HandleCreate
  \/ \E k \in Slots : BackendCreateOk(k)
  \/ \E k \in Slots : BackendList(k)
  \/ \E k \in Slots : CreateFinish(k)
  \/ \E s \in SessionIds : Output(s)
  \/ \E s \in SessionIds : AgentExit(s)
  \/ \E s \in SessionIds : ShellExit(s)
  \/ DeliverOutput
  \/ DeliverClaudeExited
  \/ DeliverSessionDone
  \/ \E via \in {"hook", "menuX"}, s \in SessionIds : CloseStart(via, s)
  \/ \E k \in Slots : BackendClose(k)
  \/ \E k \in Slots : CloseCommit(k)
  \/ \E k \in Slots : CloseFinish(k)
  \/ \E k \in Slots : CloseRejected(k)

SpecEvents == Init /\ [][NextEvents]_vars

(***************************************************************************)
(* Terminal output as a specification of its own: sessions are created and *)
(* switched, their PTYs produce output, the pane of the active session     *)
(* subscribes and renders.                                                 *)
(***************************************************************************)
NextOut ==
  \/ Navigate
  \/ HandleCreate
  \/ \E k \in Slots : BackendCreateOk(k)
  \/ \E k \in Slots : BackendList(k)
  \/ \E k \in Slots : CreateFinish(k)
  \/ CycleSession
  \/ PaneListen
  \/ \E s \in SessionIds : Output(s)
  \/ DeliverOutput

SpecOut == Init /\ [][NextOut]_vars

(***************************************************************************)
(* PTY writes as a specification of its own: message submission (Send      *)
(* button, gamepad A, text-input Enter, sendMessage) and control writes.   *)
(* pty_write calls take effect in the order the webview issues them.       *)
(***************************************************************************)
LF == "\\n"
CTRL_C == "\\x03"
ESC == "\\x1b"
ARROW_UP == "\\x1b[A"
ControlBytes == {CTRL_C, ESC, ARROW_UP}
DraftTexts == {<<SP, "hello", SP>>, <<SP>>}
Messages == {<<"hello">>}

\* The writes that reached any PTY so far.
RECURSIVE TotalWrites(_)
TotalWrites(S) ==
  IF S = {} THEN 0
  ELSE LET x == CHOOSE y \in S : TRUE IN Len(ptyLog[x]) + TotalWrites(S \ {x})
Written == TotalWrites(SessionIds)

\* Back end: pty_write appends to the PTY of a live session.
PtyWrite(s, data) == ptyLog' = [ptyLog EXCEPT ![s] = Append(@, data)]

\* The user types into the draft.
EditDraft ==
  /\ \E d \in DraftTexts : d # draftText /\ draftText' = d
  /\ UNCHANGED <<composed, scanVars, listenVars, remapVars, backendVars, sessions, activeSessionId, sessionStates,
                 uiMode, isBusy, paneVars, tasks, dialogVars>>

\* handleSend of the controller bar and of the text input, gamepad A: the
\* trimmed draft is written, then the handler waits 50 ms.
SubmitStart(via) ==
  /\ via = "padA" => uiMode = "terminal"
  /\ Trim(draftText) # <<>>
  /\ activeSessionId # NoSession
  /\ HasFree
  /\ Written + 1 < MaxWrites
  /\ IF activeSessionId \in shells
       THEN /\ PtyWrite(activeSessionId, Trim(draftText))
            /\ Start([Idle EXCEPT !.op = "submit", !.via = via, !.pc = "delay",
                                  !.sid = activeSessionId])
       ELSE /\ UNCHANGED ptyLog
            /\ Start([Idle EXCEPT !.op = "submit", !.via = via, !.pc = "rejected",
                                  !.sid = activeSessionId])
  /\ UNCHANGED <<composed, scanVars, listenVars, remapVars, registry, spawned, agentUp, events, storeVars, paneVars, dialogVars>>

\* The delay is over: the carriage return is written on its own.
SubmitReturn(k) ==
  /\ tasks[k].op = "submit" /\ tasks[k].pc = "delay"
  /\ IF tasks[k].sid \in shells
       THEN PtyWrite(tasks[k].sid, <<CR>>) /\ Goto(k, "sent")
       ELSE UNCHANGED ptyLog /\ Goto(k, "rejected")
  /\ UNCHANGED <<composed, scanVars, listenVars, remapVars, registry, spawned, agentUp, events, storeVars, paneVars, dialogVars>>

\* After the second write the draft is cleared; after a failed write the
\* handler only logs.
SubmitDone(k) ==
  /\ tasks[k].op = "submit" /\ tasks[k].pc \in {"sent", "rejected"}
  /\ draftText' = IF tasks[k].pc = "sent" THEN <<>> ELSE draftText
  /\ Finish(k)
  /\ UNCHANGED <<composed, scanVars, listenVars, remapVars, backendVars, sessions, activeSessionId, sessionStates,
                 uiMode, isBusy, paneVars, dialogVars>>

\* useSession.sendMessage up to its await.
SendMessage ==
  /\ activeSessionId # NoSession
  /\ HasFree
  /\ Written < MaxWrites
  /\ isBusy' = TRUE
  /\ \E m \in Messages :
       IF activeSessionId \in shells
         THEN /\ PtyWrite(activeSessionId, m \o <<LF>>)
              /\ Start([Idle EXCEPT !.op = "send", !.via = "hook", !.pc = "sent",
                                    !.sid = activeSessionId])
         ELSE /\ UNCHANGED ptyLog
              /\ Start([Idle EXCEPT !.op = "send", !.via = "hook", !.pc = "rejected",
                                    !.sid = activeSessionId])
  /\ UNCHANGED <<composed, scanVars, listenVars, remapVars, registry, spawned, agentUp, events, sessions,
                 activeSessionId, sessionStates, uiMode, draftText, paneVars, dialogVars>>

\* sendMessage after its await: a failed write resets the busy flag.
SendSettle(k) ==
  /\ tasks[k].op = "send"
  /\ isBusy' = IF tasks[k].pc = "rejected" THEN FALSE ELSE isBusy
  /\ Finish(k)
  /\ UNCHANGED <<composed, scanVars, listenVars, remapVars, backendVars, sessions, activeSessionId, sessionStates,
                 uiMode, draftText, paneVars, dialogVars>>

\* Stop, Escape and arrow controls: one write of the control sequence; a
\* failed write is logged or ignored.
ControlWrite ==
  /\ activeSessionId # NoSession
  /\ Written < MaxWrites
  /\ \E b \in ControlBytes :
       IF activeSessionId \in shells
         THEN PtyWrite(activeSessionId, <<b>>)
         ELSE UNCHANGED ptyLog
  /\ UNCHANGED <<composed, scanVars, listenVars, remapVars, registry, spawned, agentUp, events, storeVars, paneVars, tasks, dialogVars>>

NextWrite ==
  \/ Navigate
  \/ HandleCreate
  \/ \E k \in Slots : BackendCreateOk(k)
  \/ \E k \in Slots : BackendList(k)
  \/ \E k \in Slots : CreateFinish(k)
  \/ CycleSession
  \/ \E s \in SessionIds : ShellExit(s)
  \/ DeliverSessionDone
  \/ EditDraft
  \/ \E via \in {"bar", "padA", "input"} : SubmitStart(via)
  \/ \E k \in Slots : SubmitReturn(k)
  \/ \E k \in Slots : SubmitDone(k)
  \/ SendMessage
  \/ \E k \in Slots : SendSettle(k)
  \/ ControlWrite

SpecWrite == Init /\ [][NextWrite]_vars

(***************************************************************************)
(* Gamepad B and Y in terminal mode as a specification of its own:         *)
(* handleTerminalButton reads the snapshot of the active session when the  *)
(* button event arrives and either interrupts, relaunches or returns.      *)
(***************************************************************************)
\* B while the agent runs: pty_write of the interrupt byte, invoked by the
\* handler before its first await.
PadStop ==
  /\ uiMode = "terminal"
  /\ activeSessionId # NoSession
  /\ ~getSessionState(sessionStates, activeSessionId).ended
  /\ Len(ptyLog[activeSessionId]) < MaxRelaunches
  /\ IF activeSessionId \in shells
       THEN PtyWrite(activeSessionId, <<CTRL_C>>)
       ELSE UNCHANGED ptyLog
  /\ UNCHANGED <<composed, scanVars, listenVars, remapVars, registry, spawned, agentUp, events, storeVars, paneVars, tasks, dialogVars>>

\* Y while the agent runs: the handler returns at once.
PadContinueIgnored ==
  /\ uiMode = "terminal"
  /\ activeSessionId # NoSession
  /\ ~getSessionState(sessionStates, activeSessionId).ended
  /\ UNCHANGED vars

NextPad ==
  \/ Navigate
  \/ HandleCreate
  \/ \E k \in Slots : BackendCreateOk(k)
  \/ \E k \in Slots : BackendList(k)
  \/ \E k \in Slots : CreateFinish(k)
  \/ PaneListen
  \/ \E s \in SessionIds : AgentExit(s)
  \/ \E s \in SessionIds : ShellExit(s)
  \/ DeliverOutput
  \/ DeliverClaudeExited
  \/ DeliverSessionDone
  \/ PadStop
  \/ PadContinueIgnored
  \/ \E via \in {"padB", "padY"} : RelaunchStart(via)
  \/ \E k \in Slots : BackendLookup(k)
  \/ \E k \in Slots : RelaunchCommit(k)
  \/ \E k \in Slots : RelaunchWrite(k)
  \/ \E k \in Slots : RelaunchRejected(k)

SpecPad == Init /\ [][NextPad]_vars

(***************************************************************************)
(* The listeners of useSession as a specification of its own: App calls    *)
(* setupListeners from an effect, which may run again while an earlier     *)
(* call still awaits listen(); the back end emits events meanwhile.        *)
(***************************************************************************)
\* The guard of setupListeners: the module's flag.
AlreadySetup_Never(flag) == FALSE
AlreadySetup(flag) == flag

\* A call of setupListeners up to its first await: it returns when the
\* flag is set, else sets the flag and invokes listen('claude-exited').
SetupCall(c) ==
  /\ setups[c] = "idle"
  /\ IF AlreadySetup(listenerSetup)
       THEN /\ setups' = [setups EXCEPT ![c] = "done"]
            /\ UNCHANGED listenerSetup
       ELSE /\ listenerSetup' = TRUE
            /\ setups' = [setups EXCEPT ![c] = "claude-exited"]
  /\ UNCHANGED <<composed, scanVars, backendVars, storeVars, paneVars, tasks, listeners, handled, dialogVars, remapVars>>

\* What a call of setupListeners does after the listen() of event e.
AfterListen(e) ==
  CASE e = "claude-exited" -> "session-done"
    [] e = "session-done" -> "session-message-sent"
    [] OTHER -> "done"

\* listen() resolves: the listener is subscribed and the call goes on.
Subscribe(c) ==
  /\ setups[c] \in ListenedEvents
  /\ listeners' = [listeners EXCEPT ![setups[c]] = @ + 1]
  /\ setups' = [setups EXCEPT ![c] = AfterListen(@)]
  /\ UNCHANGED <<composed, scanVars, backendVars, storeVars, paneVars, tasks, listenerSetup, handled, dialogVars, remapVars>>

\* The listeners of claude-exited and session-done.
OnEvent(st, e) ==
  LET ended == setSessionEnded(st, e.session_id, TRUE) IN
    IF e.type = "claude-exited" /\ terminalInstance # NoSession /\ termResume # NULL
      THEN setClaudeResumeId(ended, e.session_id, termResume)
      ELSE ended

RECURSIVE RunListeners(_, _, _)
RunListeners(st, e, n) ==
  IF n = 0 THEN st ELSE RunListeners(OnEvent(st, e), e, n - 1)

\* The webview dispatches an event to every listener subscribed to it.
Dispatch ==
  /\ events # <<>> /\ Head(events).type \in ListenedEvents
  /\ events' = Tail(events)
  /\ LET e == Head(events)
         n == listeners[e.type]
     IN /\ handled' = n
        /\ isBusy' = IF n > 0 THEN FALSE ELSE isBusy
        /\ sessionStates' = RunListeners(sessionStates, e, n)
  /\ UNCHANGED <<composed, scanVars, registry, spawned, agentUp, ptyLog, sessions,
                 activeSessionId, uiMode, draftText, paneVars, tasks,
                 listenerSetup, listeners, setups, dialogVars, remapVars>>

NextListen ==
  \/ \E c \in SetupCalls : SetupCall(c)
  \/ \E c \in SetupCalls : Subscribe(c)
  \/ Navigate
  \/ HandleCreate
  \/ \E k \in Slots : BackendCreateOk(k)
  \/ \E k \in Slots : BackendList(k)
  \/ \E k \in Slots : CreateFinish(k)
  \/ PaneListen
  \/ \E s \in SessionIds : AgentExit(s)
  \/ \E s \in SessionIds : ShellExit(s)
  \/ DeliverOutput
  \/ Dispatch

SpecListen == InitListen /\ [][NextListen]_vars

(***************************************************************************)
(* Command Composer claims (checked under SpecCmd).                        *)
(***************************************************************************)
Called == composed # NoCall
IsResumeOrContinue == Called /\ (composed.resumeId # NoId \/ composed.cont)
IsLaunch == Called /\ composed.resumeId = NoId /\ ~composed.cont

\* The words of a string, blanks dropped.
IsWord(a) == a # SP
IsOtherFlag(a) == a # SP /\ a # WORKTREE
Words(s) == SelectSeq(s, IsWord)

\* a is a subsequence of b (same order, b may hold more).
RECURSIVE IsSubseq(_, _)
IsSubseq(a, b) ==
  IF a = <<>> THEN TRUE
  ELSE IF b = <<>> THEN FALSE
  ELSE IF Head(a) = Head(b) THEN IsSubseq(Tail(a), Tail(b))
  ELSE IsSubseq(a, Tail(b))

\* a occurs in b as a contiguous run.
Contains(b, a) ==
  \E i \in 0..(Len(b) - Len(a)) : SubSeq(b, i + 1, i + Len(a)) = a

StartsWith(b, a) == Len(a) <= Len(b) /\ SubSeq(b, 1, Len(a)) = a
EndsWith(b, a) == Len(a) <= Len(b) /\ SubSeq(b, Len(b) - Len(a) + 1, Len(b)) = a

NoDoubleSpace(s) == \A i \in 1..(Len(s) - 1) : ~(s[i] = SP /\ s[i + 1] = SP)

\* Words joined by single blanks.
RECURSIVE JoinWords(_)
JoinWords(ws) ==
  IF ws = <<>> THEN <<>>
  ELSE IF Len(ws) = 1 THEN ws
  ELSE <<Head(ws), SP>> \o JoinWords(Tail(ws))

\* The stored flags without the blanks at either end.
RECURSIVE DropLeadingBlanks(_)
DropLeadingBlanks(s) ==
  IF s # <<>> /\ Head(s) = SP THEN DropLeadingBlanks(Tail(s)) ELSE s
RECURSIVE DropTrailingBlanks(_)
DropTrailingBlanks(s) ==
  IF s # <<>> /\ s[Len(s)] = SP THEN DropTrailingBlanks(SubSeq(s, 1, Len(s) - 1)) ELSE s
Stripped(s) == DropTrailingBlanks(DropLeadingBlanks(s))

\* C4: a resume or continue command holds no --worktree, holds every other
\* stored flag in its original order, and has no run of two or more blanks.
C4_ResumeStripsWorktree ==
  IsResumeOrContinue =>
    /\ WORKTREE \notin Range(composed.out)
    /\ IsSubseq(SelectSeq(composed.flags, IsOtherFlag), composed.out)
    /\ NoDoubleSpace(composed.out)

\* C4 witness: a resume of a session stored with --worktree between two
\* other flags has been composed.
C4_Witness ==
  /\ Called
  /\ composed.resumeId # NoId
  /\ Contains(composed.flags, <<"--model", SP, WORKTREE, SP, "sonnet">>)

\* C5: a launch or plain restart starts with the agent path and the bypass
\* flag, holds the stored flags unchanged (--worktree included) and ends
\* with the marker fragment.
C5_LaunchKeepsFlags ==
  IsLaunch =>
    /\ StartsWith(composed.out, <<composed.path, SP, BYPASS>>)
    /\ Contains(composed.out, Stripped(composed.flags))
    /\ (WORKTREE \in Range(composed.flags) => WORKTREE \in Range(composed.out))
    /\ EndsWith(composed.out, <<MARKER>>)

\* C5 witness: a launch of a session stored with --worktree has been composed.
C5_Witness ==
  /\ IsLaunch
  /\ WORKTREE \in Range(composed.flags)
  /\ Len(Words(composed.flags)) >= 2

\* C6: the command is the agent path and the bypass flag, then --resume <id>
\* if an id was given, then --continue if requested, then the filtered flags
\* if any, then the marker fragment, and nothing else.
C6_ExactShape ==
  Called =>
    LET filtered == IF composed.resumeId # NoId \/ composed.cont
                    THEN JoinWords(SelectSeq(composed.flags, IsOtherFlag))
                    ELSE Stripped(composed.flags)
    IN  composed.out =
          <<composed.path, SP, BYPASS>>
          \o (IF composed.resumeId # NoId THEN <<SP, RESUME, SP, composed.resumeId>> ELSE <<>>)
          \o (IF composed.cont THEN <<SP, CONTINUE>> ELSE <<>>)
          \o (IF filtered # <<>> THEN <<SP>> \o filtered ELSE <<>>)
          \o <<MARKER>>

\* C6 witness: a command with a resume id, --continue and stored flags
\* whose filtering drops --worktree and collapses a run of blanks.
C6_Witness ==
  /\ Called
  /\ composed.resumeId # NoId
  /\ composed.cont
  /\ Contains(composed.flags, <<WORKTREE, SP, SP, "--model">>)

(***************************************************************************)
(* Output and lifecycle claims                                             *)
(***************************************************************************)
\* The webview handles the oldest pending event, of the given type.
Delivers(type) ==
  /\ events # <<>>
  /\ Head(events).type = type
  /\ events' = Tail(events)

Ended(st, s) == getSessionState(st, s).ended
ResumeId(st, s) == getSessionState(st, s).resumeId

\* C3: every output chunk emitted for a live session is delivered to that
\* session's rendering surface: when the webview handles a chunk of a
\* session whose shell is alive, a listening terminal of that session
\* writes it, also while another session is active and also before the
\* pane's listener has finished subscribing.
C3_NoOutputLost ==
  [][(Delivers("session-output") /\ Head(events).session_id \in shells)
       => PaneWrites(Head(events))]_vars

\* C7: the ended flag is not set true by session-done: handling a
\* session-done event leaves the flag of that session as it was.
C7_SessionDoneKeepsEnded ==
  [][Delivers("session-done")
       => Ended(sessionStates', Head(events).session_id)
            = Ended(sessionStates, Head(events).session_id)]_vars

\* C8: a relaunch (restart button, gamepad B or Y, Start-menu resume)
\* leaves the resume id of its session null, and a resume id goes from
\* null to a value only in the claude-exited handler for that session.
C8_RelaunchClearsResumeId ==
  [][/\ \A k \in Slots :
          (tasks[k].op = "relaunch" /\ tasks[k].pc = "compose" /\ tasks'[k].pc = "pty_write")
            => ResumeId(sessionStates', tasks[k].sid) = NULL
     /\ \A s \in SessionIds :
          (ResumeId(sessionStates, s) = NULL /\ ResumeId(sessionStates', s) # NULL)
            => (Delivers("claude-exited") /\ Head(events).session_id = s)]_vars

\* A relaunch that resumed with a recorded id has cleared it and is about
\* to write its command.
C8_Witness ==
  \E k \in Slots :
    /\ tasks[k].op = "relaunch" /\ tasks[k].pc = "pty_write"
    /\ tasks[k].rid # NULL
    /\ ResumeId(sessionStates, tasks[k].sid) = NULL

\* C9: after session-done for an id the session is torn down in the UI: it
\* is not in the sessions list, not the active session, and has no
\* per-session state.
C9_SessionDoneTearsDown ==
  [][Delivers("session-done")
       => LET id == Head(events).session_id IN
            /\ id \notin Range(sessions')
            /\ activeSessionId' # id
            /\ id \notin DOMAIN sessionStates']_vars

\* C10: a create that the back end rejects changes nothing in the store:
\* neither the rejection nor the handler that observes it touches the
\* sessions list, the active session, the per-session states or the UI
\* mode, so the caller's catch ran and the dialog is still open.
C10_FailedCreateLeavesStore ==
  [][\A k \in Slots :
       (/\ tasks[k].op = "create"
        /\ \/ tasks[k].pc = "create_session" /\ tasks'[k].pc = "rejected"
           \/ tasks[k].pc = "rejected" /\ tasks'[k] = Idle)
         => /\ sessions' = sessions
            /\ activeSessionId' = activeSessionId
            /\ sessionStates' = sessionStates
            /\ uiMode' = uiMode]_vars

\* A create was rejected while the dialog is open and a session exists.
C10_Witness ==
  \E k \in Slots :
    /\ tasks[k].op = "create" /\ tasks[k].pc = "rejected"
    /\ uiMode = "newSession"
    /\ sessions # <<>>
    /\ activeSessionId # NoSession

(***************************************************************************)
(* PTY write claims                                                        *)
(***************************************************************************)
Last(w) == w[Len(w)]
IsBody(w) == w # <<>> /\ \A i \in 1..Len(w) : w[i] \notin ControlBytes \cup {CR, LF}

\* C1: a message submission never reaches the PTY as one combined write:
\* whatever write ends in a carriage return or a newline is a lone
\* carriage return, the second write of a submission.
C1_TwoStepSubmission ==
  \A s \in SessionIds : \A i \in 1..Len(ptyLog[s]) :
    LET w == ptyLog[s][i] IN
      Last(w) \in {CR, LF} => w = <<CR>>

\* C2: the body of a submission and its carriage return are consecutive
\* writes of the session: a body is the latest write or is followed at
\* once by the lone carriage return.
C2_BodyThenReturn ==
  \A s \in SessionIds : \A i \in 1..Len(ptyLog[s]) :
    IsBody(ptyLog[s][i]) => i = Len(ptyLog[s]) \/ ptyLog[s][i + 1] = <<CR>>

(***************************************************************************)
(* Close claims                                                            *)
(***************************************************************************)
\* Slot k holds a close call that moves in this step.
CloseMoves(k) == tasks[k].op = "close" /\ tasks'[k] # tasks[k]

\* C11: closing an id that is already closed is NotFound or a no-op: the
\* back end changes nothing and emits no second session-done, no exception
\* escapes the close handler, the snapshots of the other sessions stay, and
\* a sessions list that agrees with the registry stays as it is.
C11_SecondCloseIsNoOp ==
  [][\A k \in Slots :
       (CloseMoves(k) /\ ~tasks[k].found /\ tasks[k].sid \notin shells)
         => /\ events' = events
            /\ registry' = registry
            /\ tasks'[k].pc # "escaped"
            /\ \A x \in SessionIds \ {tasks[k].sid} :
                 /\ (x \in DOMAIN sessionStates') = (x \in DOMAIN sessionStates)
                 /\ getSessionState(sessionStates', x) = getSessionState(sessionStates, x)
            /\ (sessions = SortedSeq(shells) /\ tasks[k].list = SortedSeq(shells)
                  /\ tasks[k].pc = "listed")
                 => sessions' = sessions]_vars

\* The second close of a session has come back: the first close removed the
\* session from the registry and from the list, the second one was NotFound.
C11_Witness ==
  \E k \in Slots :
    /\ tasks[k].op = "close" /\ tasks[k].pc = "rejected"
    /\ tasks[k].sid \notin shells
    /\ tasks[k].sid \notin Range(sessions)
    /\ sessions # <<>>

\* The events a step of the back end emits: what it appends to the queue.
Emitted ==
  IF Len(events') > Len(events)
    THEN SubSeq(events', Len(events) + 1, Len(events'))
    ELSE <<>>

Gone(s) == s \in 1..spawned /\ s \notin shells

\* C13: session-done is emitted exactly once per session, by the step in
\* which its shell ends (end of stream, exit, read error, close), and
\* after it no session-output, claude-exited or session-done event is
\* emitted for that session id.
C13_SessionDoneOnceAndLast ==
  [][\A s \in SessionIds :
       /\ Gone(s) =>
            /\ s \notin DOMAIN registry'
            /\ \A i \in DOMAIN Emitted : Emitted[i].session_id # s
       /\ (s \in shells /\ s \notin DOMAIN registry') =>
            /\ Emitted = <<Event("session-done", s, "")>>
       /\ (s \in shells /\ s \in DOMAIN registry') =>
            \A i \in DOMAIN Emitted :
              Emitted[i].session_id = s => Emitted[i].type # "session-done"]_vars

C13_Witness ==
  \E s \in SessionIds, o \in SessionIds :
    /\ Gone(s) /\ o \in shells
    /\ Len(events) = 2
    /\ events[1] = Event("session-done", s, "")
    /\ events[2].session_id = o

(***************************************************************************)
(* Gamepad B and Y in terminal mode.                                       *)
(***************************************************************************)
\* A handler of the given button starts: its task leaves the idle slot k.
Pressed(k, via) == tasks[k] = Idle /\ tasks'[k].via = via

\* The relaunch handler in slot k of the given button has its pty_write
\* reach the PTY of a live session.
Relaunches(k, via) ==
  /\ tasks[k].via = via /\ tasks[k].pc = "pty_write" /\ tasks'[k] = Idle
  /\ tasks[k].sid \in shells

Interrupts(s) == ptyLog'[s] = Append(ptyLog[s], <<CTRL_C>>)

IsRelaunchCommand(w) ==
  /\ StartsWith(w, <<"claude", SP, BYPASS>>)
  /\ EndsWith(w, <<MARKER, CR>>)

\* C17: in terminal mode B writes the interrupt byte to the active session
\* exactly when that session is not ended; when it is ended B writes a
\* relaunch command instead, and the command holds "--resume <id>" exactly
\* when the store records a resume id for the session as B is pressed.
C17_BStopsOrRelaunches ==
  [][/\ \A s \in SessionIds :
          Interrupts(s) => /\ uiMode = "terminal"
                           /\ s = activeSessionId
                           /\ ~Ended(sessionStates, s)
     /\ \A k \in Slots :
          /\ Pressed(k, "padB")
               => /\ uiMode = "terminal"
                  /\ tasks'[k].sid = activeSessionId
                  /\ Ended(sessionStates, activeSessionId)
                  /\ tasks'[k].rid = ResumeId(sessionStates, activeSessionId)
                  /\ ptyLog' = ptyLog
          /\ Relaunches(k, "padB")
               => LET s == tasks[k].sid
                      w == Last(ptyLog'[s])
                  IN /\ ptyLog' = [ptyLog EXCEPT ![s] = Append(@, w)]
                     /\ IsRelaunchCommand(w)
                     /\ CTRL_C \notin Range(w)
                     /\ (RESUME \in Range(w)) <=> (tasks[k].rid # NULL)
                     /\ tasks[k].rid # NULL => Contains(w, <<RESUME, SP, tasks[k].rid>>)]_vars

\* B has interrupted one session and resumed another with its recorded id.
C17_Witness ==
  \E s \in SessionIds, o \in SessionIds :
    /\ ptyLog[o] = << <<CTRL_C>> >>
    /\ Len(ptyLog[s]) = 1
    /\ Contains(ptyLog[s][1], <<RESUME, SP, ResumeIdOf(s)>>)

\* C18: in terminal mode Y does nothing unless the active session is
\* ended: its handler starts no call, writes nothing and changes no state;
\* when the session is ended Y writes a relaunch command that holds
\* "--continue" and no "--resume".
C18_YContinuesOnlyWhenEnded ==
  [][\A k \in Slots :
       /\ Pressed(k, "padY")
            => /\ uiMode = "terminal"
               /\ tasks'[k].sid = activeSessionId
               /\ Ended(sessionStates, activeSessionId)
       /\ Relaunches(k, "padY")
            => LET s == tasks[k].sid
                   w == Last(ptyLog'[s])
               IN /\ ptyLog' = [ptyLog EXCEPT ![s] = Append(@, w)]
                  /\ IsRelaunchCommand(w)
                  /\ CONTINUE \in Range(w)
                  /\ RESUME \notin Range(w)]_vars

\* Y has continued a session that was created without --continue.
C18_Witness ==
  \E s \in SessionIds :
    /\ Len(ptyLog[s]) = 1
    /\ CONTINUE \in Range(ptyLog[s][1])
    /\ RESUME \notin Range(ptyLog[s][1])
    /\ s \in DOMAIN registry /\ CONTINUE \notin Range(registry[s].launch_flags)

(***************************************************************************)
(* The listeners of useSession.                                            *)
(***************************************************************************)
\* C19: however many calls of setupListeners are made, one after another
\* or overlapping, claude-exited and session-done have at most one
\* listener each, and an event runs at most one listener.
C19_OneListenerPerEvent ==
  /\ \A e \in {"claude-exited", "session-done"} : listeners[e] <= 1
  /\ handled <= 1

\* A second call returned while the first still awaits its last listen(),
\* and an event has run the one listener there is.
C19_Witness ==
  \E c \in SetupCalls, d \in SetupCalls :
    /\ setups[c] = "session-message-sent"
    /\ setups[d] = "done"
    /\ handled = 1

(***************************************************************************)
(* The per-session snapshots of the store.                                 *)
(***************************************************************************)
SameSnapshot(x) ==
  /\ (x \in DOMAIN sessionStates') <=> (x \in DOMAIN sessionStates)
  /\ getSessionState(sessionStates', x) = getSessionState(sessionStates, x)

OthersKept(s) == \A x \in SessionIds \ {s} : SameSnapshot(x)

Commits(k) ==
  tasks[k].op = "relaunch" /\ tasks[k].pc = "compose" /\ tasks'[k].pc = "pty_write"

\* C20: an update of a session's snapshot changes the named field of the
\* named session and nothing else: session-done sets ended and keeps the
\* resume id, claude-exited sets ended and then the resume id it found
\* (else keeps the one there is), a relaunch sets ended false and the
\* resume id null, each leaves the snapshots of the other sessions as they
\* were, and no other step changes a snapshot.
C20_UpdatesOneField ==
  [][/\ Delivers("session-done")
          => LET s == Head(events).session_id IN
               /\ Ended(sessionStates', s)
               /\ ResumeId(sessionStates', s) = ResumeId(sessionStates, s)
               /\ OthersKept(s)
     /\ Delivers("claude-exited")
          => LET s == Head(events).session_id IN
               /\ Ended(sessionStates', s)
               /\ ResumeId(sessionStates', s) =
                    IF terminalInstance # NoSession /\ termResume # NULL
                      THEN termResume
                      ELSE ResumeId(sessionStates, s)
               /\ OthersKept(s)
     /\ \A k \in Slots :
          Commits(k)
            => /\ ~Ended(sessionStates', tasks[k].sid)
               /\ ResumeId(sessionStates', tasks[k].sid) = NULL
               /\ OthersKept(tasks[k].sid)
     /\ (~Delivers("session-done") /\ ~Delivers("claude-exited")
           /\ \A k \in Slots : ~Commits(k))
          => sessionStates' = sessionStates]_vars

\* session-done was handled after claude-exited had recorded a resume id,
\* which is still there, while another session was relaunched.
C20_Witness ==
  \E s \in SessionIds, o \in SessionIds :
    /\ Gone(s) /\ events = <<>>
    /\ Ended(sessionStates, s) /\ ResumeId(sessionStates, s) # NULL
    /\ o \in DOMAIN sessionStates /\ ~Ended(sessionStates, o)

(***************************************************************************)
(* Sentinel Scanner as a specification of its own: the reader of one       *)
(* session feeds every chunk it reads to the scanner.  Bytes are atoms:    *)
(* the seven bytes of the marker ESC ] 6 6 6 ; BEL and one other byte.     *)
(***************************************************************************)
MarkerBytes == <<"ESC", "]", "6", "6", "6", ";", "BEL">>
MarkerLen == Len(MarkerBytes)
OtherByte == "x"

\* The last n bytes of s.
Suffix(s, n) == IF Len(s) <= n THEN s ELSE SubSeq(s, Len(s) - n + 1, Len(s))

\* One call of the scanner: search the retained tail followed by the chunk;
\* on a match signal detection and clear the tail, otherwise keep the last
\* (marker length - 1) bytes.
KeepTail_All(buf) == buf
KeepTail(buf) == Suffix(buf, MarkerLen - 1)
ScanDetects_Chunk(tl, chunk) == Contains(chunk, MarkerBytes)
ScanDetects_Short(tl, chunk) == Contains(tl \o chunk, SubSeq(MarkerBytes, 1, MarkerLen - 1))
ScanDetects(tl, chunk) == Contains(tl \o chunk, MarkerBytes)
ScanTail_Carry(tl, chunk) == KeepTail(tl \o chunk)
ScanTail(tl, chunk) == IF ScanDetects(tl, chunk) THEN <<>> ELSE KeepTail(tl \o chunk)

\* What the stream itself holds, read byte by byte: the length of the
\* marker prefix the stream ends in (the marker starts with a byte that
\* occurs nowhere else in it), and the markers that become complete.
Advance(m, b) ==
  IF b = MarkerBytes[m + 1] THEN m + 1
  ELSE IF b = MarkerBytes[1] THEN 1 ELSE 0

RECURSIVE Follow(_, _, _, _)
Follow(m, chunk, i, done) ==
  IF i > Len(chunk) THEN [matched |-> m, completed |-> done]
  ELSE LET n == Advance(m, chunk[i]) IN
         IF n = MarkerLen THEN Follow(0, chunk, i + 1, done + 1)
         ELSE Follow(n, chunk, i + 1, done)

\* The chunks a read can deliver after a stream that ends in a marker
\* prefix of length m: each byte continues the marker, starts it again, or
\* is another byte.
RECURSIVE ChunksFrom(_, _)
ChunksFrom(m, n) ==
  IF n = 0 THEN {<<>>}
  ELSE UNION {{<<b>> \o c : c \in ChunksFrom(Advance(m, b) % MarkerLen, n - 1)} :
                b \in {MarkerBytes[m + 1], MarkerBytes[1], OtherByte}}

\* The marker bytes fed so far as a clean split of the marker, after this chunk.
PureAfter(k, chunk) ==
  LET from == k % MarkerLen IN
    IF from + Len(chunk) <= MarkerLen /\ chunk = SubSeq(MarkerBytes, from + 1, from + Len(chunk))
      THEN from + Len(chunk)
    ELSE IF Len(chunk) <= MarkerLen /\ chunk = SubSeq(MarkerBytes, 1, Len(chunk))
      THEN Len(chunk)
    ELSE 0

\* The reader has read a chunk and calls the scanner with it.
Scan(chunk) ==
  LET seen == Follow(matched, chunk, 1, 0) IN
    /\ tail' = ScanTail(tail, chunk)
    /\ lastScan' = [detected |-> ScanDetects(tail, chunk), completed |-> seen.completed,
                    len |-> Len(chunk)]
    /\ matched' = seen.matched
    /\ pure' = PureAfter(pure, chunk)
    /\ everDetected' = (everDetected \/ ScanDetects(tail, chunk))
    /\ everCompleted' = (everCompleted \/ seen.completed > 0)
    /\ UNCHANGED <<composed, backendVars, storeVars, paneVars, tasks, listenVars, remapVars, dialogVars>>

\* The chunks of every length up to the bound, by marker prefix.
Chunks == [m \in 0..(MarkerLen - 1) |-> UNION {ChunksFrom(m, n) : n \in 1..MaxChunk}]

\* The pieces that continue a clean split of the marker, of any length.
MarkerPieces(k) ==
  LET from == k % MarkerLen IN
    {SubSeq(MarkerBytes, from + 1, from + n) : n \in 1..(MarkerLen - from)}

\* A read delivers a short chunk of any content.
ScanChunk == \E chunk \in Chunks[matched] : Scan(chunk)

\* A read delivers the next piece of a marker that arrives split.
ScanMarkerPiece == \E chunk \in MarkerPieces(pure) : Scan(chunk)

NextScan == ScanChunk \/ ScanMarkerPiece

SpecScan == Init /\ [][NextScan]_vars

(***************************************************************************)
(* Sentinel Scanner claims                                                 *)
(***************************************************************************)
\* C12: agent-exited is emitted once for each launch whose marker appears
\* in the stream, however the stream is chunked and however closely the
\* launches follow each other: every read signals as many exits as markers
\* became complete in it.
C12_OneExitPerMarker ==
  (IF lastScan.detected THEN 1 ELSE 0) = lastScan.completed

\* C14: when the marker is fed as a split into non-empty contiguous chunks,
\* one call per chunk, detection is signalled on the call that supplies the
\* last byte and on no call before it.
C14_SplitMarkerDetectedOnce ==
  pure > 0 => (lastScan.detected <=> pure = MarkerLen)

\* The last byte of a marker that came in several chunks has been fed and
\* detection was signalled.
C14_Witness ==
  /\ pure = MarkerLen
  /\ lastScan.len < MarkerLen
  /\ lastScan.detected

\* C15: after every call the retained tail holds at most (marker length - 1)
\* bytes, and none right after a match.
C15_TailBound ==
  /\ Len(tail) <= MarkerLen - 1
  /\ lastScan.detected => tail = <<>>

\* After a match the tail has filled up to its bound again.
C15_Witness ==
  /\ everDetected
  /\ ~lastScan.detected
  /\ Len(tail) = MarkerLen - 1

\* C16: a stream that, put together over all calls, never holds the whole
\* marker never makes the scanner signal detection.
C16_NoFalsePositive ==
  everDetected => everCompleted

\* A stream without the marker that ends one byte short of it.
C16_Witness ==
  /\ ~everCompleted
  /\ ~everDetected
  /\ matched = MarkerLen - 1
  /\ Len(tail) = MarkerLen - 1

(***************************************************************************)
(* Control inputs as a specification of its own: the gamepad buttons of    *)
(* terminal mode, the L1 and Stop buttons of the controller bar and the    *)
(* arrow keys and interrupt shortcut of the keyboard, each of which        *)
(* invokes pty_write once.  A write is the sequence of its bytes.          *)
(***************************************************************************)
TAB == "\\t"
Interrupt == <<CTRL_C>>
Escape == <<ESC>>
ShiftTab == <<ESC, "[", "Z">>
Arrow(d) == <<ESC, "[", d>>

\* The bytes each control passes to pty_write.
ControlData(via, key) ==
  CASE key \in {"B", "interrupt"} -> <<CTRL_C>>
    [] key = "R1" -> <<ESC>>
    [] key = "L1" -> <<ESC, "[", "Z">>
    [] key = "R5" -> <<TAB>>
    [] key \in {"DPadUp", "arrowup"} -> <<ESC, "[", "A">>
    [] key \in {"DPadDown", "arrowdown"} -> <<ESC, "[", "B">>
    [] key \in {"DPadRight", "arrowright"} -> <<ESC, "[", "C">>
    [] key \in {"DPadLeft", "arrowleft"} -> <<ESC, "[", "D">>

ControlKeys(via) ==
  CASE via = "pad" -> {"B", "R1", "L1", "R5", "DPadUp", "DPadDown", "DPadLeft", "DPadRight"}
    [] via = "bar" -> {"B", "L1"}
    [] via = "key" -> {"interrupt", "arrowup", "arrowdown", "arrowleft", "arrowright"}

\* The calls of pty_write a control handler makes, in order.
ControlWrites_Submit(data) == <<data, <<CR>> >>
ControlWrites(data) == <<data>>

\* A control is activated: the handler invokes pty_write and awaits it.
\* B interrupts while the session is not ended.
ControlPress(via, key) ==
  /\ activeSessionId # NoSession
  /\ via \in {"pad", "key"} => uiMode = "terminal"
  /\ key = "B" => ~getSessionState(sessionStates, activeSessionId).ended
  /\ HasFree
  /\ Written < MaxControls
  /\ Start([Idle EXCEPT !.op = "control", !.via = via, !.pc = "pty_write",
                        !.sid = activeSessionId, !.arg = <<key>>])
  /\ UNCHANGED <<composed, scanVars, listenVars, remapVars, backendVars, storeVars, paneVars, dialogVars>>

\* Back end: the pty_write calls of the handler, then the handler returns.
\* For a session that is gone the call rejects and the handler logs.
ControlDone(k) ==
  /\ tasks[k].op = "control" /\ tasks[k].pc = "pty_write"
  /\ IF tasks[k].sid \in shells
       THEN ptyLog' = [ptyLog EXCEPT ![tasks[k].sid] =
                         @ \o ControlWrites(ControlData(tasks[k].via, tasks[k].arg[1]))]
       ELSE UNCHANGED ptyLog
  /\ Finish(k)
  /\ UNCHANGED <<composed, scanVars, listenVars, remapVars, registry, spawned, agentUp, events, storeVars, paneVars, dialogVars>>

NextControl ==
  \/ Navigate
  \/ HandleCreate
  \/ \E k \in Slots : BackendCreateOk(k)
  \/ \E k \in Slots : BackendList(k)
  \/ \E k \in Slots : CreateFinish(k)
  \/ \E s \in SessionIds : ShellExit(s)
  \/ DeliverSessionDone
  \/ \E via \in {"pad", "bar", "key"} : \E key \in ControlKeys(via) : ControlPress(via, key)
  \/ \E k \in Slots : ControlDone(k)

SpecControl == Init /\ [][NextControl]_vars

\* What each control input is documented to send.
Sends(key) ==
  CASE key \in {"B", "interrupt"} -> Interrupt
    [] key = "R1" -> Escape
    [] key = "L1" -> ShiftTab
    [] key = "R5" -> <<TAB>>
    [] key \in {"DPadUp", "arrowup"} -> Arrow("A")
    [] key \in {"DPadDown", "arrowdown"} -> Arrow("B")
    [] key \in {"DPadRight", "arrowright"} -> Arrow("C")
    [] key \in {"DPadLeft", "arrowleft"} -> Arrow("D")

\* C21: a control input is sent as exactly one PTY write holding exactly
\* its byte sequence: the handler's only step on the PTY appends that one
\* write to the log of its session and nothing to any other.
C21_ControlIsOneWrite ==
  [][\A k \in Slots :
       /\ (tasks[k].op = "control" /\ tasks'[k] # tasks[k])
            => /\ tasks'[k] = Idle
               /\ tasks[k].sid \in shells
                    => ptyLog' = [ptyLog EXCEPT ![tasks[k].sid] =
                                    Append(@, Sends(tasks[k].arg[1]))]
       /\ (tasks[k] = Idle /\ tasks'[k].op = "control") => ptyLog' = ptyLog]_vars

\* The mode cycle of the gamepad has reached the PTY as one write of three
\* bytes, after an interrupt.
C21_Witness ==
  \E s \in SessionIds : ptyLog[s] = <<Interrupt, ShiftTab>>

(***************************************************************************)
(* Semantic actions as a specification of its own: the keyboard shortcut   *)
(* and the action menu call sendAction of useActions, the Start menu runs  *)
(* its action item; the user edits the draft meanwhile.                    *)
(***************************************************************************)
SemanticActions == {"interrupt", "context", "fix"}
Prompt(action) == <<"prompt", SP, action>>

\* The branch of the handlers on the action.
IsInterrupt_Any(action) == TRUE
IsInterrupt(action) == action = "interrupt"

\* An action is activated with a session active.  The Start menu returns
\* to the terminal first; the handler then invokes pty_write (interrupt) or
\* build_action_prompt.
ActionStart(via, action) ==
  /\ activeSessionId # NoSession
  /\ via = "key" => uiMode = "terminal"
  /\ via = "startMenu" => uiMode = "startMenu"
  /\ HasFree
  /\ Written < MaxControls
  /\ IF via = "startMenu"
       THEN setUIMode("terminal")
       ELSE UNCHANGED <<uiMode, dialogVars>>
  /\ Start([Idle EXCEPT !.op = "action", !.via = via, !.sid = activeSessionId,
                        !.arg = <<action>>,
                        !.pc = IF IsInterrupt(action) THEN "pty_write"
                                                      ELSE "build_action_prompt"])
  /\ UNCHANGED <<composed, scanVars, listenVars, remapVars, backendVars, sessions, activeSessionId,
                 sessionStates, draftText, isBusy, paneVars>>

\* Back end: pty_write of the interrupt byte; the handler returns.
ActionInterrupt(k) ==
  /\ tasks[k].op = "action" /\ tasks[k].pc = "pty_write"
  /\ IF tasks[k].sid \in shells
       THEN PtyWrite(tasks[k].sid, <<CTRL_C>>)
       ELSE UNCHANGED ptyLog
  /\ Finish(k)
  /\ UNCHANGED <<composed, scanVars, listenVars, remapVars, registry, spawned, agentUp, events, storeVars, paneVars, dialogVars>>

\* Back end: build_action_prompt resolves with the prompt, which the
\* handler puts into the draft, or rejects, which the handler logs.
ActionBuilt(k) ==
  /\ tasks[k].op = "action" /\ tasks[k].pc = "build_action_prompt"
  /\ \E ok \in BOOLEAN :
       draftText' = IF ok THEN Prompt(tasks[k].arg[1]) ELSE draftText
  /\ Finish(k)
  /\ UNCHANGED <<composed, scanVars, listenVars, remapVars, backendVars, sessions, activeSessionId,
                 sessionStates, uiMode, isBusy, paneVars, dialogVars>>

NextAction ==
  \/ Navigate
  \/ HandleCreate
  \/ \E k \in Slots : BackendCreateOk(k)
  \/ \E k \in Slots : BackendList(k)
  \/ \E k \in Slots : CreateFinish(k)
  \/ \E s \in SessionIds : ShellExit(s)
  \/ EditDraft
  \/ \E via \in {"key", "menu", "startMenu"}, action \in SemanticActions : ActionStart(via, action)
  \/ \E k \in Slots : ActionInterrupt(k)
  \/ \E k \in Slots : ActionBuilt(k)

SpecAction == Init /\ [][NextAction]_vars

ActionMoves(k) == tasks[k].op = "action" /\ tasks'[k] # tasks[k]
ActionOf(k) == tasks[k].arg[1]

MaxPureFlagsLen == 1
PureFlags == {f \in FlagStrings : Len(f) <= MaxPureFlagsLen}

SameArguments(c, p, f, r, k) ==
  c # NoCall /\ c.path = p /\ c.flags = f /\ c.resumeId = r /\ c.cont = k

\* What a call returns in the state in which it is made.
CallResult_Sticky(claudePath, storedFlags, resumeId, cont) ==
  <<claudePath, SP, BYPASS>>
    \o (IF resumeId # NoId THEN <<SP, RESUME, SP, resumeId>> ELSE <<>>)
    \o (IF cont THEN <<SP, CONTINUE>> ELSE <<>>)
    \o (IF Trim(storedFlags) # <<>> /\ composed.out = <<>>
          THEN <<SP>> \o Trim(storedFlags) ELSE <<>>)
    \o <<MARKER>>

CallResult(claudePath, storedFlags, resumeId, cont) ==
  buildClaudeCommand(claudePath, storedFlags, resumeId, cont)

Call ==
  /\ \E p \in {"claude"}, f \in PureFlags, r \in ResumeIds \cup {NoId}, c \in BOOLEAN :
       composed' = [path |-> p, flags |-> f, resumeId |-> r, cont |-> c,
                    out |-> CallResult(p, f, r, c),
                    again |-> SameArguments(composed, p, f, r, c),
                    was |-> IF SameArguments(composed, p, f, r, c)
                              THEN composed.out ELSE <<>>]
  /\ UNCHANGED <<backendVars, storeVars, paneVars, tasks, scanVars, listenVars, remapVars, dialogVars>>

NextPure ==
  \/ Call
  \/ Navigate
  \/ HandleCreate
  \/ \E k \in Slots : BackendCreateOk(k)
  \/ \E k \in Slots : BackendList(k)
  \/ \E k \in Slots : CreateFinish(k)
  \/ \E s \in SessionIds : ShellExit(s)
  \/ DeliverSessionDone

SpecPure == Init /\ [][NextPure]_vars

FIELD_COUNT == 4
Names == {"", "work"}
Clamp(lo, x, hi) == IF x < lo THEN lo ELSE IF x > hi THEN hi ELSE x

\* handleCreate: the extra flags it builds from the latest store state.
handleCreateFlags(d) == LaunchFlags(d.newSessionContinue, d.newSessionWorktree)

\* The condition under which the effect of NewSessionDialog calls
\* handleCreate.
EffectCreates(d, mode) == d.newSessionCreateTrigger # 0 /\ mode = "newSession"

\* The effect after a store update that changed the trigger or the mode.
RunEffect(cause, d, mode) ==
  IF EffectCreates(d, mode)
    THEN /\ HasFree
         /\ Start([Idle EXCEPT !.op = "create", !.via = cause, !.pc = "create_session",
                               !.arg = handleCreateFlags(d)])
    ELSE UNCHANGED tasks

\* X in terminal mode toggles the on-screen keyboard.
ToggleKeyboard ==
  /\ uiMode = "terminal"
  /\ keyboardActive' = ~keyboardActive
  /\ UNCHANGED <<composed, scanVars, listenVars, remapVars, backendVars, storeVars, paneVars, tasks, dialog>>

\* DPadUp / DPadDown in the dialog.
DialogMove(step) ==
  /\ uiMode = "newSession"
  /\ dialog' = [dialog EXCEPT !.newSessionFieldIndex = Clamp(0, @ + step, FIELD_COUNT - 1)]
  /\ dialog' # dialog
  /\ UNCHANGED <<composed, scanVars, listenVars, remapVars, backendVars, storeVars, paneVars, tasks, keyboardActive>>

\* DPadLeft / DPadRight in the dialog: the directory, or the worktree toggle.
DialogSide(step) ==
  /\ uiMode = "newSession"
  /\ dialog.newSessionFieldIndex \in {1, 2}
  /\ dialog' = IF dialog.newSessionFieldIndex = 1
                 THEN [dialog EXCEPT !.newSessionDirIndex = Clamp(-1, @ + step, MaxRecentDirs - 1)]
                 ELSE [dialog EXCEPT !.newSessionWorktree = ~@]
  /\ dialog' # dialog
  /\ UNCHANGED <<composed, scanVars, listenVars, remapVars, backendVars, storeVars, paneVars, tasks, keyboardActive>>

\* The name field is edited.
DialogName ==
  /\ uiMode = "newSession"
  /\ \E n \in Names : n # dialog.newSessionName /\ dialog' = [dialog EXCEPT !.newSessionName = n]
  /\ UNCHANGED <<composed, scanVars, listenVars, remapVars, backendVars, storeVars, paneVars, tasks, keyboardActive>>

\* Y on the directory field opens the directory browser.
DialogBrowse ==
  /\ uiMode = "newSession"
  /\ dialog.newSessionFieldIndex = 1
  /\ setUIMode("dirBrowser")
  /\ RunEffect("mode", dialog, "dirBrowser")
  /\ UNCHANGED <<composed, scanVars, listenVars, remapVars, backendVars, sessions, activeSessionId,
                 sessionStates, draftText, isBusy, paneVars>>

\* X (select: the directory becomes the first recent one) or Start (cancel)
\* in the directory browser: back to the dialog.
BrowserReturn(select) ==
  /\ uiMode = "dirBrowser"
  /\ LET d == DialogAfter("newSession", uiMode,
                          IF select THEN [dialog EXCEPT !.newSessionDirIndex = 0] ELSE dialog)
     IN /\ uiMode' = "newSession"
        /\ keyboardActive' = FALSE
        /\ dialog' = d
        /\ RunEffect("mode", d, "newSession")
  /\ UNCHANGED <<composed, scanVars, listenVars, remapVars, backendVars, sessions, activeSessionId,
                 sessionStates, draftText, isBusy, paneVars>>

\* A or Y on the Create field: the continue option is set, the trigger is
\* incremented.
ContinueFor_Sticky(button) == button = "Y" \/ dialog.newSessionContinue
ContinueFor(button) == button = "Y"

DialogCreate(button) ==
  /\ uiMode = "newSession"
  /\ dialog.newSessionFieldIndex = FIELD_COUNT - 1
  /\ dialog.newSessionCreateTrigger < MaxTriggers
  /\ LET d == [dialog EXCEPT !.newSessionContinue = ContinueFor(button),
                             !.newSessionCreateTrigger = @ + 1]
     IN /\ dialog' = d
        /\ RunEffect(button, d, uiMode)
  /\ UNCHANGED <<composed, scanVars, listenVars, remapVars, backendVars, storeVars, paneVars, keyboardActive>>

\* A click on the Create button calls handleCreate.
DialogClick ==
  /\ uiMode = "newSession"
  /\ HasFree
  /\ Start([Idle EXCEPT !.op = "create", !.via = "click", !.pc = "create_session",
                        !.arg = handleCreateFlags(dialog)])
  /\ UNCHANGED <<composed, scanVars, listenVars, remapVars, backendVars, storeVars, paneVars, dialogVars>>

NextDialog ==
  \/ Navigate
  \/ ToggleKeyboard
  \/ \E step \in {-1, 1} : DialogMove(step)
  \/ \E step \in {-1, 1} : DialogSide(step)
  \/ DialogName
  \/ DialogBrowse
  \/ \E select \in BOOLEAN : BrowserReturn(select)
  \/ \E button \in {"A", "Y"} : DialogCreate(button)
  \/ DialogClick
  \/ \E k \in Slots : BackendCreateOk(k)
  \/ \E k \in Slots : BackendCreateFail(k)
  \/ \E k \in Slots : BackendList(k)
  \/ \E k \in Slots : CreateFinish(k)
  \/ \E k \in Slots : CreateRejected(k)

SpecDialog == Init /\ [][NextDialog]_vars

Issues(k, b) ==
  /\ tasks[k] = Idle
  /\ tasks'[k].op = "create"
  /\ tasks'[k].via = b

\* C24: a creation issued with A on the Create field carries extra flags
\* without --continue, one issued with Y carries them with --continue, and
\* in both --worktree is among the flags exactly when the worktree toggle is
\* on at the moment the creation is issued.
C24_CreateFlagsFollowButton ==
  [][\A k \in Slots :
       /\ Issues(k, "A") => ~Contains(tasks'[k].arg, <<CONTINUE>>)
       /\ Issues(k, "Y") => Contains(tasks'[k].arg, <<CONTINUE>>)
       /\ (Issues(k, "A") \/ Issues(k, "Y")) =>
            (Contains(tasks'[k].arg, <<WORKTREE>>) <=> dialog.newSessionWorktree)]_vars

\* A was pressed on the Create field after an earlier creation with Y: the
\* second creation carries the worktree flag alone although the first one
\* set the continue option.
C24_Witness ==
  /\ dialog.newSessionCreateTrigger = 2
  /\ ~dialog.newSessionContinue
  /\ \E k \in Slots : /\ tasks[k].op = "create"
                      /\ tasks[k].via = "A"
                      /\ tasks[k].pc = "create_session"
                      /\ tasks[k].arg = <<WORKTREE>>

\* The Create control is activated in this step: A or Y on the Create field
\* increments the trigger, or the Create button is clicked.
Activation ==
  \/ dialog'.newSessionCreateTrigger = dialog.newSessionCreateTrigger + 1
  \/ \E k \in Slots : Issues(k, "click")

\* The number of slots in which create_session is invoked in this step.
Invocations ==
  Cardinality({k \in Slots : tasks[k] = Idle /\ tasks'[k].op = "create"
                               /\ tasks'[k].pc = "create_session"})

\* C30: create_session is invoked exactly once per activation of the Create
\* control and never without one, in particular not when the dialog is
\* entered again from the directory browser after an earlier attempt.
C30_OneCreatePerActivation ==
  [][/\ Activation => Invocations = 1
     /\ ~Activation => Invocations = 0]_vars

\* The claim restricted to the steps the code gets right: every activation
\* invokes create_session exactly once.
C30_ActivationCreatesOnce ==
  [][Activation => Invocations = 1]_vars

\* The dialog was entered again from the directory browser with a nonzero
\* create trigger and create_session is invoked without any activation.
C30_Reentry ==
  \E k \in Slots : /\ tasks[k].op = "create"
                   /\ tasks[k].via = "mode"
                   /\ tasks[k].pc = "create_session"

(***************************************************************************)
(* StartMenu.tsx: the focusable items of the Start menu, built from the    *)
(* store whenever the menu renders or the gamepad moves in it.             *)
(***************************************************************************)
ResumeOffered_Ended(sessionEnded, claudeResumeId) == sessionEnded
ResumeOffered(sessionEnded, claudeResumeId) == sessionEnded /\ claudeResumeId # NULL

buildSessionsTab(list, sessionEnded, claudeResumeId) ==
  <<[type |-> "newSession", sessionId |-> NoSession]>>
    \o (IF ResumeOffered(sessionEnded, claudeResumeId)
          THEN <<[type |-> "resumeSession", sessionId |-> NoSession]>>
          ELSE <<>>)
    \o [i \in 1..Len(list) |-> [type |-> "session", sessionId |-> list[i]]]

MenuActions == <<"context", "explain", "fix", "continue", "plan", "summarize">>
MenuSettings == <<"safety", "voice", "theme", "model", "effort", "whisper-model">>
Tabs == {0, 1, 2}

buildStartMenuItemsForTab(tab) ==
  LET activeState == IF activeSessionId # NoSession /\ activeSessionId \in DOMAIN sessionStates
                       THEN sessionStates[activeSessionId] ELSE DefaultState
  IN CASE tab = 0 -> buildSessionsTab(sessions, activeState.ended, activeState.resumeId)
       [] tab = 1 -> [i \in 1..Len(MenuActions) |-> [type |-> "action", sessionId |-> NoSession]]
       [] tab = 2 -> [i \in 1..Len(MenuSettings) |-> [type |-> "setting", sessionId |-> NoSession]]
       [] OTHER -> <<>>

ResumeItems(tab) ==
  {i \in DOMAIN buildStartMenuItemsForTab(tab) :
     buildStartMenuItemsForTab(tab)[i].type = "resumeSession"}

\* C26: the Start menu's item list contains the Resume Session item exactly
\* when the active session has ended and has a recorded resume id; it is
\* never there for a session whose agent runs or when no session is active.
C26_ResumeItemIffEndedWithId ==
  /\ ResumeItems(0) # {} <=>
       /\ activeSessionId # NoSession
       /\ Ended(sessionStates, activeSessionId)
       /\ ResumeId(sessionStates, activeSessionId) # NULL
  /\ Cardinality(ResumeItems(0)) <= 1
  /\ \A tab \in Tabs \ {0} : ResumeItems(tab) = {}

\* The Start menu is open on an ended session with a recorded resume id,
\* and the item is in the list between New Session and the sessions.
C26_Witness ==
  /\ uiMode = "startMenu"
  /\ Len(sessions) = 2
  /\ ResumeItems(0) = {2}
  /\ Len(buildStartMenuItemsForTab(0)) = 4

(***************************************************************************)
(* The button remapper: in remapper mode a capture is started for one      *)
(* action and one binding type, and the next key or gamepad button is      *)
(* bound to that action, cleared from any other action that held it.       *)
(***************************************************************************)
ActionDefs == <<"context", "explain", "fix", "continue", "plan", "summarize", "interrupt", "voice">>

FIXED_GAMEPAD_BUTTONS ==
  {"A", "B", "X", "Y", "Start", "Select", "DPadUp", "DPadDown", "DPadLeft", "DPadRight",
   "L3", "R3", "R5"}

\* toLowerCase on the atoms of a combo.
Lower(a) ==
  CASE a = "Ctrl" -> "ctrl"
    [] a = "Shift" -> "shift"
    [] a = "Alt" -> "alt"
    [] a = "A" -> "a"
    [] a = "Escape" -> "escape"
    [] a = "Space" -> "space"
    [] OTHER -> a

\* formatKeyCombo: the modifiers and the key in lower case, joined by "+"
\* (a sequence of atoms here).
formatKeyCombo(kb) == [i \in 1..Len(kb.modifiers) |-> Lower(kb.modifiers[i])] \o <<Lower(kb.key)>>

\* applyKeyboardBinding's own combo: the joined string in lower case.
JoinedLower_Exact(kb) == kb.modifiers \o <<kb.key>>
JoinedLower(kb) == [i \in 1..(Len(kb.modifiers) + 1) |-> Lower((kb.modifiers \o <<kb.key>>)[i])]

Bound(ms) == {i \in DOMAIN ms : TRUE}
IndexOfAction(ms, a) ==
  IF \E i \in DOMAIN ms : ms[i].action = a
    THEN CHOOSE i \in DOMAIN ms : ms[i].action = a /\ \A j \in 1..(i - 1) : ms[j].action # a
    ELSE 0

\* The keys and buttons pressed during a capture.
CapturedKeys == {"1", "a", "A", "Escape"}
CapturedButtons == {"B", "A", "R5", "L2", "R2"}

applyKeyboardBinding(ms, actionIndex, kb) ==
  LET action == ActionDefs[actionIndex]
      cleared == [i \in DOMAIN ms |->
                    IF ms[i].action # action /\ ms[i].keyboard # NoKey
                         /\ JoinedLower(ms[i].keyboard) = JoinedLower(kb)
                      THEN [ms[i] EXCEPT !.keyboard = NoKey] ELSE ms[i]]
      at == IndexOfAction(cleared, action)
  IN IF at # 0 THEN [cleared EXCEPT ![at].keyboard = kb]
               ELSE Append(cleared, ButtonMapping(action, kb, NULL))

applyGamepadBinding(ms, actionIndex, button) ==
  LET action == ActionDefs[actionIndex]
      cleared == [i \in DOMAIN ms |->
                    IF ms[i].action # action /\ ms[i].gamepad = button
                      THEN [ms[i] EXCEPT !.gamepad = NULL] ELSE ms[i]]
      at == IndexOfAction(cleared, action)
  IN IF at # 0 THEN [cleared EXCEPT ![at].gamepad = button]
               ELSE Append(cleared, ButtonMapping(action, NoKey, button))

\* buildKeyboardMap and buildGamepadMap: the lookup maps, as sets of
\* <<combo or button, action>> pairs in which a later mapping of the same
\* combo or button replaces an earlier one.
buildKeyboardMap(ms) ==
  {<<formatKeyCombo(ms[i].keyboard), ms[i].action>> :
     i \in {i \in DOMAIN ms :
              /\ ms[i].keyboard # NoKey
              /\ \A j \in (i + 1)..Len(ms) :
                   ms[j].keyboard = NoKey
                     \/ formatKeyCombo(ms[j].keyboard) # formatKeyCombo(ms[i].keyboard)}}

buildGamepadMap(ms) ==
  {<<ms[i].gamepad, ms[i].action>> :
     i \in {i \in DOMAIN ms :
              /\ ms[i].gamepad # NULL
              /\ ms[i].gamepad \notin FIXED_GAMEPAD_BUTTONS
              /\ \A j \in (i + 1)..Len(ms) : ms[j].gamepad # ms[i].gamepad}}

remapFrame ==
  UNCHANGED <<composed, scanVars, listenVars, backendVars, sessions, activeSessionId,
              sessionStates, draftText, isBusy, paneVars, tasks>>

\* The remapper is opened from the Start menu and closed with Escape.
RemapperOpen ==
  /\ uiMode = "startMenu"
  /\ setUIMode("remapper")
  /\ UNCHANGED remapVars
  /\ remapFrame

RemapperClose ==
  /\ uiMode = "remapper"
  /\ remapperCaptureState = NoCapture
  /\ setUIMode("terminal")
  /\ UNCHANGED remapVars
  /\ remapFrame

\* A capture is started for the focused action and a binding type.
StartCapture(actionIndex, bindingType) ==
  /\ uiMode = "remapper"
  /\ actionIndex \in DOMAIN ActionDefs
  /\ remapperCaptureState = NoCapture
  /\ remapperCaptureState' = [actionIndex |-> actionIndex, bindingType |-> bindingType]
  /\ UNCHANGED <<button_mappings, uiMode, dialogVars>>
  /\ remapFrame

\* The keydown handler of a keyboard capture: Escape cancels, any other key
\* is bound with the modifiers held.
CaptureKey(key, ctrl) ==
  /\ uiMode = "remapper"
  /\ remapperCaptureState.bindingType = "keyboard"
  /\ button_mappings' =
       IF key = "Escape" THEN button_mappings
       ELSE applyKeyboardBinding(button_mappings, remapperCaptureState.actionIndex,
              KeyBinding(key, IF ctrl THEN <<"Ctrl">> ELSE <<>>))
  /\ remapperCaptureState' = NoCapture
  /\ UNCHANGED <<uiMode, dialogVars>>
  /\ remapFrame

\* The gamepad-button listener of a gamepad capture: B cancels, a fixed
\* button is refused and the capture goes on, any other button is bound.
CaptureButton(button) ==
  /\ uiMode = "remapper"
  /\ remapperCaptureState.bindingType = "gamepad"
  /\ IF button = "B"
       THEN remapperCaptureState' = NoCapture /\ UNCHANGED button_mappings
       ELSE IF button \in FIXED_GAMEPAD_BUTTONS
         THEN UNCHANGED remapVars
         ELSE /\ button_mappings' = applyGamepadBinding(button_mappings,
                                      remapperCaptureState.actionIndex, button)
              /\ remapperCaptureState' = NoCapture
  /\ UNCHANGED <<uiMode, dialogVars>>
  /\ remapFrame

NextRemap ==
  \/ Navigate
  \/ RemapperOpen
  \/ RemapperClose
  \/ \E i \in 1..MaxRemapFocus, bt \in {"keyboard", "gamepad"} : StartCapture(i, bt)
  \/ \E key \in CapturedKeys, ctrl \in BOOLEAN : CaptureKey(key, ctrl)
  \/ \E button \in CapturedButtons : CaptureButton(button)

SpecRemap == Init /\ [][NextRemap]_vars

\* C27: from the default mappings, after any sequence of keyboard and
\* gamepad binding captures, no two actions share a keyboard combo (compared
\* without regard to case) or a gamepad button, and no fixed gamepad button
\* is bound to an action or is a key of buildGamepadMap's map.
C27_BindingsUniqueAndNotReserved ==
  /\ \A i, j \in DOMAIN button_mappings :
       button_mappings[i].action # button_mappings[j].action =>
         /\ (button_mappings[i].keyboard # NoKey /\ button_mappings[j].keyboard # NoKey) =>
              formatKeyCombo(button_mappings[i].keyboard)
                # formatKeyCombo(button_mappings[j].keyboard)
         /\ button_mappings[i].gamepad # NULL =>
              button_mappings[i].gamepad # button_mappings[j].gamepad
  /\ \A i \in DOMAIN button_mappings : button_mappings[i].gamepad \notin FIXED_GAMEPAD_BUTTONS
  /\ \A e \in buildGamepadMap(button_mappings) : e[1] \notin FIXED_GAMEPAD_BUTTONS

\* Captures have taken Ctrl+1 from context to explain, R2 from voice to
\* context, and bound "A" to fix after "a" had been bound to context.
C27_Witness ==
  /\ button_mappings[1].keyboard = NoKey
  /\ button_mappings[2].keyboard = KeyBinding("1", <<"Ctrl">>)
  /\ button_mappings[3].keyboard = KeyBinding("A", <<>>)
  /\ button_mappings[1].gamepad = "R2"
  /\ button_mappings[8].gamepad = NULL
  /\ buildGamepadMap(button_mappings) = {<<"R2", "context">>}
  /\ <<<<"a">>, "fix">> \in buildKeyboardMap(button_mappings)

(***************************************************************************)
(* Relaunch activations that overlap: one more handler may be in flight    *)
(* than elsewhere, so that B, Y or the Start menu's Resume can be          *)
(* activated again while an earlier activation awaits its lookups.         *)
(***************************************************************************)
InitRace ==
  /\ LoadedWith(MaxTasks + 1)
  /\ listenerSetup = TRUE
  /\ listeners = [e \in ListenedEvents |-> 1]
  /\ setups = [c \in SetupCalls |-> "done"]

\* No handler is in flight.
Quiet == \A k \in Slots : tasks[k] = Idle

\* Sessions are created and the UI mode is changed while no handler is in
\* flight; relaunch activations overlap freely.
NextRace ==
  \/ Quiet /\ Navigate
  \/ Quiet /\ HandleCreate
  \/ \E k \in Slots : BackendCreateOk(k)
  \/ \E k \in Slots : BackendList(k)
  \/ \E k \in Slots : CreateFinish(k)
  \/ PaneListen
  \/ \E s \in SessionIds : AgentExit(s)
  \/ DeliverOutput
  \/ DeliverClaudeExited
  \/ \E via \in {"padB", "padY", "menu"} : RelaunchStart(via)
  \/ \E k \in Slots : BackendLookup(k)
  \/ \E k \in Slots : RelaunchCommit(k)
  \/ \E k \in Slots : RelaunchWrite(k)

SpecRace == InitRace /\ [][NextRace]_vars

\* Handler k types its relaunch command into the PTY of session s in this
\* step.
TypesRelaunch(k, s) ==
  /\ tasks[k].op = "relaunch" /\ tasks[k].pc = "pty_write" /\ tasks[k].sid = s
  /\ ptyLog'[s] = Append(ptyLog[s], RelaunchCommand(tasks[k]))

\* C28: between one exit of a session's agent and the next, at most one
\* relaunch command is written to the session's PTY, however many times and
\* whenever B, Y and the Start menu's Resume are activated: a relaunch
\* command is typed only while no agent runs in the session, that is, no
\* relaunch command has been typed since the agent last exited.
C28_OneRelaunchPerExit ==
  [][\A k \in Slots, s \in SessionIds : TypesRelaunch(k, s) => ~agentUp[s]]_vars

\* Two relaunch commands in one PTY, the second typed while the agent
\* started by the first was running.
C28_TwoCommands ==
  \E s \in SessionIds : Len(ptyLog[s]) = 2 /\ agentUp[s]

\* C29: a resume id recorded for a session was extracted from that
\* session's own rendered output: it is the id that session's agent
\* printed, whichever session is active when the agent-exited event is
\* handled.
C29_ResumeIdIsTheSessionsOwn ==
  \A s \in DOMAIN sessionStates :
    sessionStates[s].resumeId # NULL => sessionStates[s].resumeId = ResumeIdOf(s)

(***************************************************************************)
(* The active session under create, close, select and cycle.               *)
(***************************************************************************)
\* A on a session item of the Start menu: the session becomes the active
\* one and the menu closes.
SelectSession(s) ==
  /\ uiMode = "startMenu"
  /\ s \in Range(sessions)
  /\ setActiveSession(s)
  /\ setUIMode("terminal")
  /\ UNCHANGED <<composed, scanVars, listenVars, remapVars, backendVars, sessions, sessionStates,
                 draftText, isBusy, tasks>>

NextSessions ==
  \/ Navigate
  \/ HandleCreate
  \/ \E k \in Slots : BackendCreateOk(k)
  \/ \E k \in Slots : BackendList(k)
  \/ \E k \in Slots : CreateFinish(k)
  \/ CycleSession
  \/ \E s \in SessionIds : SelectSession(s)
  \/ \E via \in {"hook", "menuX"}, s \in SessionIds : CloseStart(via, s)
  \/ \E k \in Slots : BackendClose(k)
  \/ \E k \in Slots : CloseCommit(k)
  \/ \E k \in Slots : CloseFinish(k)
  \/ \E k \in Slots : CloseRejected(k)
  \/ DeliverSessionDone

SpecSessions == Init /\ [][NextSessions]_vars

\* The active session is none or a listed one.
ActiveListed(active, list) == active = NoSession \/ active \in Range(list)

\* Handler k completes the close of the session that is the active one.
ClosesActive(k) ==
  /\ tasks[k].op = "close" /\ tasks[k].pc = "listed" /\ tasks'[k] = Idle
  /\ tasks[k].sid = activeSessionId

\* C31: once every create, close, select and cycle operation has completed,
\* in whatever order the operations and their completions came,
\* activeSessionId is null or the id of a session of the UI's list; and the
\* close of the active session makes the first remaining session of the list
\* the active one, or none when no session remains.
C31_ActiveSessionIsListed ==
  [][/\ (\A k \in Slots : tasks'[k] = Idle) => ActiveListed(activeSessionId', sessions')
     /\ \A k \in Slots :
          ClosesActive(k) =>
            activeSessionId' = IF sessions' = <<>> THEN NoSession ELSE sessions'[1]]_vars

\* Session s was closed through the UI: it was created, the back end no
\* longer holds it (close_session is all that removes a session here), and
\* no close handler for it is still in flight.
ClosedThroughUI(s) ==
  /\ s \in 1..spawned
  /\ s \notin shells
  /\ \A k \in Slots : ~(tasks[k].op = "close" /\ tasks[k].sid = s)

\* C32: after a session has been closed through the UI the per-session
\* state map holds no entry for its id, and none reappears, whatever the
\* order of the close's completion and of a late event for that id.
C32_ClosedSessionHasNoState ==
  \A s \in SessionIds : ClosedThroughUI(s) => s \notin DOMAIN sessionStates

\* Relaunch handler k fails in this step: its catch runs after a lookup
\* that rejected, or its pty_write rejects.
RelaunchFails(k) ==
  /\ tasks[k].op = "relaunch"
  /\ tasks'[k] = Idle
  /\ \/ tasks[k].pc = "rejected"
     \/ tasks[k].pc = "pty_write" /\ tasks[k].sid \notin shells

\* C33: when a relaunch attempt fails, at a lookup or at the PTY write of
\* the command, the session's ended flag and resume id are what they were
\* before the attempt (ended, with the resume id the handler captured), so
\* that the restart or resume offer is still there.
C33_FailedRelaunchKeepsOffer ==
  [][\A k \in Slots :
       RelaunchFails(k) =>
         /\ Ended(sessionStates', tasks[k].sid)
         /\ ResumeId(sessionStates', tasks[k].sid) = tasks[k].rid]_vars

\* The part of the claim the code satisfies: a relaunch attempt that fails
\* at a lookup has written nothing to the store.
C33_FailedLookupKeepsOffer ==
  [][\A k \in Slots :
       (RelaunchFails(k) /\ tasks[k].pc = "rejected") =>
         /\ Ended(sessionStates', tasks[k].sid)
         /\ ResumeId(sessionStates', tasks[k].sid) = tasks[k].rid]_vars
====
